---- MODULE Spec2Model ----
(***************************************************************************)
(* PulseGrid analytics engine (src/js/engine.js, src/js/embed.js,          *)
(* src/js/pipeline.js): a model of the statistical kernels and of the      *)
(* composite recession scorer.                                             *)
(*                                                                         *)
(* Numbers.  A JavaScript number is modelled by the real number it         *)
(* denotes, as an exact rational <<n, d>> in lowest terms with d > 0; the  *)
(* three non-finite doubles are <<1, 0>> (Infinity), <<-1, 0>> (-Infinity) *)
(* and <<0, 0>> (NaN).  null is the empty tuple.  Rounding error of the    *)
(* double arithmetic is not modelled; Math.round and toFixed are.  A       *)
(* square root is kept as the rational under the root, <<n, d, 2>>, and    *)
(* every comparison against it is made on squares.                         *)
(***************************************************************************)
EXTENDS Integers, Sequences, FiniteSets, TLC

VARIABLES
  series,    \* the TimeSeries handed to the engine call
  call,      \* the engine call made last and its arguments
  ret,       \* what that call returned
  metrics,   \* PG.metrics
  local,     \* the local variables of a call that runs in several steps
  browser    \* the IndexedDB cache entry of the key, the clock and navigator.onLine

vars == <<series, call, ret, metrics, local, browser>>

----------------------------------------------------------------------------
(* JavaScript values *)

Null == << >>
NaN == <<0, 0>>
PosInf == <<1, 0>>
NegInf == <<-1, 0>>

Abs(i) == IF i < 0 THEN -i ELSE i
Sign(i) == IF i < 0 THEN -1 ELSE IF i > 0 THEN 1 ELSE 0

RECURSIVE GCD(_, _)
GCD(a, b) == IF b = 0 THEN a ELSE GCD(b, a % b)

\* n/d in lowest terms, d # 0
Norm(n, d) ==
  LET g == GCD(Abs(n), Abs(d))
      s == IF d < 0 THEN -1 ELSE 1
  IN  <<s * (n \div g), s * (d \div g)>>

Num(i) == <<i, 1>>
Zero == Num(0)
One == Num(1)

IsNum(v) == Len(v) = 2
\* an object (a record), not null or a number (tuples)
IsRecord(v) == DOMAIN v # {} /\ DOMAIN v \subseteq STRING
IsFin(v) == v[2] > 0            \* isFinite(v) for a number v
IsNaN(v) == v = NaN
\* d.value !== null && isFinite(d.value)
IsValid(v) == v # Null /\ IsFin(v)

\* a/b compared with c/d for a, c >= 0 and b, d > 0, by Euclid's algorithm
\* (no product is formed): -1, 0 or 1
RECURSIVE FracCmp(_, _, _, _)
FracCmp(a, b, c, d) ==
  LET qa == a \div b
      qc == c \div d
      ra == a % b
      rc == c % d
  IN  IF qa < qc THEN -1
      ELSE IF qa > qc THEN 1
      ELSE IF ra = 0 /\ rc = 0 THEN 0
      ELSE IF ra = 0 THEN -1
      ELSE IF rc = 0 THEN 1
      ELSE -FracCmp(b, ra, d, rc)

\* the order of two numbers, neither NaN: -1, 0 or 1
RCmp(a, b) ==
  IF ~IsFin(a) \/ ~IsFin(b)
  THEN (IF a = b THEN 0
        ELSE IF a = NegInf \/ b = PosInf THEN -1 ELSE 1)
  ELSE IF a[1] < 0 /\ b[1] >= 0 THEN -1
  ELSE IF a[1] >= 0 /\ b[1] < 0 THEN 1
  ELSE IF a[1] >= 0 THEN FracCmp(a[1], a[2], b[1], b[2])
  ELSE FracCmp(-b[1], b[2], -a[1], a[2])

\* a < b, a <= b, a > b, a >= b, a === b: false when either is NaN
RLt(a, b) == ~IsNaN(a) /\ ~IsNaN(b) /\ RCmp(a, b) < 0
RLe(a, b) == ~IsNaN(a) /\ ~IsNaN(b) /\ RCmp(a, b) <= 0
RGt(a, b) == RLt(b, a)
RGe(a, b) == RLe(b, a)
REq(a, b) == ~IsNaN(a) /\ ~IsNaN(b) /\ a = b

RNeg(a) == <<-a[1], a[2]>>
RAbs(a) == <<Abs(a[1]), a[2]>>      \* Math.abs

\* a + b
RAdd(a, b) ==
  IF IsFin(a) /\ IsFin(b)
  THEN LET g == GCD(a[2], b[2])
           l == (a[2] \div g) * b[2]
       IN  Norm(a[1] * (l \div a[2]) + b[1] * (l \div b[2]), l)
  ELSE IF IsNaN(a) \/ IsNaN(b) THEN NaN
  ELSE IF IsFin(a) THEN b
  ELSE IF IsFin(b) \/ a = b THEN a
  ELSE NaN

RSub(a, b) == RAdd(a, RNeg(b))

\* a * b
RMul(a, b) ==
  IF IsFin(a) /\ IsFin(b)
  THEN LET g1 == GCD(Abs(a[1]), b[2])
           g2 == GCD(Abs(b[1]), a[2])
       IN  Norm((a[1] \div g1) * (b[1] \div g2), (a[2] \div g2) * (b[2] \div g1))
  ELSE IF IsNaN(a) \/ IsNaN(b) \/ a[1] = 0 \/ b[1] = 0 THEN NaN
  ELSE <<Sign(a[1]) * Sign(b[1]), 0>>

\* a / b (the model has no negative zero: x / 0 takes the sign of x)
RDiv(a, b) ==
  IF IsNaN(a) \/ IsNaN(b) THEN NaN
  ELSE IF ~IsFin(b) THEN (IF IsFin(a) THEN Zero ELSE NaN)
  ELSE IF b[1] = 0 THEN <<Sign(a[1]), 0>>
  ELSE RMul(a, <<Sign(b[1]) * b[2], Abs(b[1])>>)

RSq(a) == RMul(a, a)

\* Math.sqrt(a), kept as the rational under the root
Sqrt(a) == <<a[1], a[2], 2>>

\* Math.floor of a finite number
Floor(a) == a[1] \div a[2]
\* Math.round of a finite number: floor(a + 1/2)
Round(a) == Floor(RAdd(a, <<1, 2>>))

\* Math.round(scale * Math.sqrt(r)) for a finite r >= 0: the largest k in lo..hi
\* with (2k - 1)^2 / (4 scale^2) <= r
RECURSIVE RoundSqrtIn(_, _, _, _)
RoundSqrtIn(r, scale, lo, hi) ==
  IF lo = hi THEN lo
  ELSE LET mid == (lo + hi + 1) \div 2
       IN  IF FracCmp((2 * mid - 1) * (2 * mid - 1), 4 * scale * scale, r[1], r[2]) <= 0
           THEN RoundSqrtIn(r, scale, mid, hi)
           ELSE RoundSqrtIn(r, scale, lo, mid - 1)

\* Math.round(-scale * Math.sqrt(r)) negated: the least k in lo..hi with
\* r <= (2k + 1)^2 / (4 scale^2)  (round half up: -k - 1/2 rounds to -k)
RECURSIVE RoundNegSqrtIn(_, _, _, _)
RoundNegSqrtIn(r, scale, lo, hi) ==
  IF lo = hi THEN lo
  ELSE LET mid == (lo + hi) \div 2
       IN  IF FracCmp(r[1], r[2], (2 * mid + 1) * (2 * mid + 1), 4 * scale * scale) <= 0
           THEN RoundNegSqrtIn(r, scale, lo, mid)
           ELSE RoundNegSqrtIn(r, scale, mid + 1, hi)

----------------------------------------------------------------------------
(* Sequences *)

RECURSIVE SumSeq(_)
\* reduce((a, b) => a + b, 0)
SumSeq(s) == IF s = << >> THEN Zero ELSE RAdd(SumSeq(SubSeq(s, 1, Len(s) - 1)), s[Len(s)])

RECURSIVE Insert(_, _)
Insert(v, s) ==
  IF s = << >> THEN <<v>>
  ELSE IF RLt(v, s[1]) THEN <<v>> \o s
  ELSE <<s[1]>> \o Insert(v, Tail(s))

RECURSIVE SortNum(_)
\* [...vals].sort((a, b) => a - b) of finite numbers
SortNum(s) == IF s = << >> THEN << >> ELSE Insert(s[Len(s)], SortNum(SubSeq(s, 1, Len(s) - 1)))

Point(y, v) == [year |-> y, value |-> v]
\* series.filter(d => d.value !== null && isFinite(d.value))
ValidPoints(s) == SelectSeq(s, LAMBDA d : IsValid(d.value))
Values(s) == [i \in 1..Len(s) |-> s[i].value]

RECURSIVE SortInts(_)
\* a finite set of integers in increasing order
SortInts(S) ==
  IF S = {} THEN << >>
  ELSE LET m == CHOOSE x \in S : \A y \in S : x <= y
       IN  <<m>> \o SortInts(S \ {m})

\* value.toFixed(digits) of a number >= 0, as the number the string denotes
\* ("Infinity" and "NaN" for the non-finite ones)
ToFixed(v, scale) == IF IsFin(v) THEN Norm(Round(RMul(v, Num(scale))), scale) ELSE v

----------------------------------------------------------------------------
(* engine.js: descriptive statistics *)

EmptyStats ==
  [mean |-> Zero, std |-> Sqrt(Zero), min |-> Zero, max |-> Zero,
   median |-> Zero, n |-> 0, variance |-> Zero]

\* vals.reduce((a, b) => a + Math.pow(b - mean, 2), 0)
SumSqDev(vals, mean) == SumSeq([i \in 1..Len(vals) |-> RSq(RSub(vals[i], mean))])

calcStats(s) ==
  IF Len(s) = 0 THEN EmptyStats
  ELSE LET vals == Values(ValidPoints(s))
           n == Len(vals)
       IN  IF n = 0 THEN EmptyStats
           ELSE LET mean == RDiv(SumSeq(vals), Num(n))
                    variance == RDiv(SumSqDev(vals, mean), Num(IF n > 1 THEN n - 1 ELSE 1))
                    sorted == SortNum(vals)
                    median == IF n % 2 = 0
                              THEN RDiv(RAdd(sorted[n \div 2], sorted[n \div 2 + 1]), Num(2))
                              ELSE sorted[n \div 2 + 1]
                IN  [mean |-> mean, std |-> Sqrt(variance), min |-> sorted[1],
                     max |-> sorted[n], median |-> median, n |-> n,
                     variance |-> variance]

\* the growth array of calcVolatility: one entry per step whose prior value is not 0
RECURSIVE Growth(_, _)
Growth(vals, i) ==
  IF i > Len(vals) THEN << >>
  ELSE (IF vals[i - 1] # Zero
        THEN <<RMul(RDiv(RSub(vals[i], vals[i - 1]), RAbs(vals[i - 1])), Num(100))>>
        ELSE << >>) \o Growth(vals, i + 1)

calcVolatility(s) ==
  IF Len(s) = 0 THEN Null
  ELSE LET vals == Values(ValidPoints(s))
       IN  IF Len(vals) < 2 THEN Null
           ELSE LET growth == Growth(vals, 2)
                IN  calcStats([i \in 1..Len(growth) |-> Point(i - 1, growth[i])]).std

\* (Math.pow(ratio, 1 / years) - 1) * 100, kept as its two arguments
Cagr(ratio, years) == [ratio |-> ratio, years |-> years]

calcCAGR(s) ==
  IF Len(s) = 0 THEN Null
  ELSE LET vals == SelectSeq(s, LAMBDA d : d.value # Null /\ RGt(d.value, Zero))
       IN  IF Len(vals) < 2 THEN Null
           ELSE LET first == vals[1]
                    last == vals[Len(vals)]
                    years == last.year - first.year
                IN  IF years = 0 THEN Null
                    ELSE Cagr(RDiv(last.value, first.value), years)

calcChange(s) ==
  IF Len(s) = 0 THEN [abs |-> Null, pct |-> Null]
  ELSE LET vals == ValidPoints(s)
       IN  IF Len(vals) < 2 THEN [abs |-> Null, pct |-> Null]
           ELSE LET first == vals[1].value
                    last == vals[Len(vals)].value
                IN  [abs |-> RSub(last, first),
                     pct |-> IF first # Zero
                             THEN RMul(RDiv(RSub(last, first), RAbs(first)), Num(100))
                             ELSE Null]

----------------------------------------------------------------------------
(* engine.js: Pearson correlation *)

\* the value byYear[y] ends with for a series: that of its last point of year y
\* whose value is not null
LastValue(s, y) ==
  LET I == {i \in 1..Len(s) : s[i].year = y /\ s[i].value # Null}
  IN  s[CHOOSE i \in I : \A j \in I : j <= i].value

\* Object.values(byYear).filter(p => p.b !== undefined), in key order
PearsonPairs(a, b) ==
  LET ya == {a[i].year : i \in {j \in 1..Len(a) : a[j].value # Null}}
      yb == {b[i].year : i \in {j \in 1..Len(b) : b[j].value # Null}}
      ys == SortInts(ya \cap yb)
  IN  [k \in 1..Len(ys) |-> [a |-> LastValue(a, ys[k]), b |-> LastValue(b, ys[k])]]

\* pairs.length < 3
PearsonTooFew_offByOne(n) == n <= 3
PearsonTooFew(n) == n < 3

pearson(a, b) ==
  LET pairs == PearsonPairs(a, b)
      n == Len(pairs)
  IN  IF PearsonTooFew(n) THEN Null
      ELSE LET xs == [i \in 1..n |-> pairs[i].a]
               ys == [i \in 1..n |-> pairs[i].b]
               mx == RDiv(SumSeq(xs), Num(n))
               my == RDiv(SumSeq(ys), Num(n))
               num == SumSeq([i \in 1..n |-> RMul(RSub(xs[i], mx), RSub(ys[i], my))])
               dx == SumSqDev(xs, mx)
               dy == SumSqDev(ys, my)
               dd == RMul(dx, dy)           \* denom = Math.sqrt(dx * dy)
           IN  IF dd = Zero THEN Zero
               ELSE LET rho2 == RDiv(RSq(num), dd)
                        r1000 == IF num[1] >= 0
                                 THEN RoundSqrtIn(rho2, 1000, 0, 1000)
                                 ELSE -RoundNegSqrtIn(rho2, 1000, 0, 1000)
                    IN  Norm(r1000, 1000)

----------------------------------------------------------------------------
(* engine.js: Holt-Winters double exponential smoothing *)

\* the smoothing loop from observation i on: the final level and trend, and the
\* fitted values and residuals of observations i..n
RECURSIVE HWLoop(_, _, _, _, _, _)
HWLoop(data, i, level, trend, alpha, beta) ==
  IF i > Len(data)
  THEN [level |-> level, trend |-> trend, smoothed |-> << >>, errors |-> << >>]
  ELSE LET obs == data[i]
           fitted == RAdd(level, trend)
           newL == RAdd(RMul(alpha, obs), RMul(RSub(One, alpha), fitted))
           newT == RAdd(RMul(beta, RSub(newL, level)), RMul(RSub(One, beta), trend))
           rest == HWLoop(data, i + 1, newL, newT, alpha, beta)
       IN  [rest EXCEPT !.smoothed = <<fitted>> \o @,
                        !.errors = <<RSub(obs, fitted)>> \o @]

\* errors.filter((_, i) => data[i] !== 0)
KeptErrors(errors, data) ==
  LET idx == SelectSeq([i \in 1..Len(errors) |-> i], LAMBDA i : data[i] # Zero)
  IN  [k \in 1..Len(idx) |-> errors[idx[k]]]

\* .map((e, i) => Math.abs(e / data[i]) * 100): i is the index in the filtered array
MapeTerms(kept, data) ==
  [k \in 1..Len(kept) |-> RMul(RAbs(RDiv(kept[k], data[k])), Num(100))]

\* mape, before toFixed
Mape(errors, data) == RDiv(SumSeq(MapeTerms(KeptErrors(errors, data), data)), Num(Len(data)))

\* ci === 99 ? 2.576 : ci === 90 ? 1.645 : 1.960
ZScore_narrow(ci) == IF ci = 99 THEN Norm(2576, 1000) ELSE Norm(1645, 1000)
ZScore(ci) ==
  IF ci = 99 THEN Norm(2576, 1000)
  ELSE IF ci = 90 THEN Norm(1645, 1000)
  ELSE Norm(1960, 1000)

\* v + sign * (z * std * widen) for numbers v and z >= 0, square roots std and
\* widen, and sign = 1 or -1, kept as is
Offset(v, sign, z, std, widen) ==
  [mid |-> v, sign |-> sign, z |-> z, std |-> std, widen |-> widen]

\* Math.sqrt(1 + 0.1 * horizon)
Widen(horizon) == Sqrt(RAdd(One, Norm(horizon, 10)))
\* PG.calcStats(errors.map((v, i) => ({ year: i, value: v }))).std
ErrorStd(errors) == calcStats([i \in 1..Len(errors) |-> Point(i - 1, errors[i])]).std

\* the result of PG.holtwinters, or null; opt = {alpha, beta, horizon, ci}
holtwinters(s, opt) ==
  IF Len(s) = 0 THEN Null
  ELSE LET vals == ValidPoints(s)
           n == Len(vals)
       IN  IF n < 3 THEN Null
           ELSE LET data == Values(vals)
                    fit == HWLoop(data, 1, data[1], RSub(data[2], data[1]), opt.alpha, opt.beta)
                    lastYear == vals[n].year
                    forecast == [h \in 1..opt.horizon |->
                                   Point(lastYear + h, RAdd(fit.level, RMul(Num(h), fit.trend)))]
                    z == ZScore(opt.ci)
                    std == ErrorStd(fit.errors)
                    widen == Widen(opt.horizon)
                    mape == Mape(fit.errors, data)
                IN  [historical |-> vals,
                     smoothed |-> [i \in 1..n |-> Point(vals[i].year, fit.smoothed[i])],
                     errors |-> fit.errors,
                     forecast |-> forecast,
                     upperCI |-> [h \in 1..opt.horizon |->
                                    Point(forecast[h].year,
                                          Offset(forecast[h].value, 1, z, std, widen))],
                     lowerCI |-> [h \in 1..opt.horizon |->
                                    Point(forecast[h].year,
                                          Offset(forecast[h].value, -1, z, std, widen))],
                     params |-> opt,
                     accuracy |-> [mape |-> ToFixed(mape, 100), n |-> n]]

----------------------------------------------------------------------------
(* engine.js: anomaly detection *)

\* z >= threshold for z = Math.sqrt(z2) >= 0
RootGe_unsquared(z2, threshold) == threshold[1] <= 0 \/ RGe(z2, threshold)
RootGe(z2, threshold) == threshold[1] <= 0 \/ RGe(z2, RSq(threshold))

\* z.toFixed(2) for z = Math.sqrt(z2); z < n for n points
ZFixed(z2, n) == Norm(RoundSqrtIn(z2, 100, 0, 100 * n), 100)

\* the flag of a point under the method ('both' for any other method)
FlagPolicy_both(method, isZ, isIQR) == isZ \/ isIQR
FlagPolicy_zfirst(method, isZ, isIQR) == IF method = "iqr" THEN isIQR ELSE isZ
FlagPolicy(method, isZ, isIQR) ==
  IF method = "zscore" THEN isZ
  ELSE IF method = "iqr" THEN isIQR
  ELSE isZ \/ isIQR

\* vals.forEach: the points pushed to anomalies (b = TRUE) or to normal (b = FALSE)
PushedTo_every(vals, flags, b) == vals
RECURSIVE PushedTo(_, _, _)
PushedTo(vals, flags, b) ==
  IF vals = << >> THEN << >>
  ELSE LET rest == PushedTo(Tail(vals), Tail(flags), b)
       IN  IF Head(flags) = b THEN <<Head(vals)>> \o rest ELSE rest

detectAnomalies(s, method, threshold) ==
  LET vals == ValidPoints(s)
      n == Len(vals)
  IN  IF n < 4 THEN [anomalies |-> << >>, normal |-> vals]
      ELSE LET numbers == Values(vals)
               st == calcStats(vals)
               sorted == SortNum(numbers)
               q1 == sorted[(n \div 4) + 1]             \* sorted[Math.floor(n * 0.25)]
               q3 == sorted[((3 * n) \div 4) + 1]       \* sorted[Math.floor(n * 0.75)]
               iqr == RSub(q3, q1)
               iqrLow == RSub(q1, RMul(<<3, 2>>, iqr))
               iqrHigh == RAdd(q3, RMul(<<3, 2>>, iqr))
               \* z squared: std > 0 ? Math.abs((d.value - mean) / std) : 0
               Z2(d) == IF st.variance[1] > 0
                        THEN RDiv(RSq(RSub(d.value, st.mean)), st.variance)
                        ELSE Zero
               IsZ(d) == RootGe(Z2(d), threshold)
               IsIQR(d) == RLt(d.value, iqrLow) \/ RGt(d.value, iqrHigh)
               Flag(d) == FlagPolicy(method, IsZ(d), IsIQR(d))
               flags == [i \in 1..n |-> Flag(vals[i])]
               flagged == PushedTo(vals, flags, TRUE)
           IN  [anomalies |-> [i \in 1..Len(flagged) |->
                                 [year |-> flagged[i].year, value |-> flagged[i].value,
                                  z |-> ZFixed(Z2(flagged[i]), n), isZ |-> IsZ(flagged[i]),
                                  isIQR |-> IsIQR(flagged[i])]],
                normal |-> PushedTo(vals, flags, FALSE),
                stats |-> [mean |-> st.mean, std |-> st.std, q1 |-> q1, q3 |-> q3,
                           iqr |-> iqr, iqrLow |-> iqrLow, iqrHigh |-> iqrHigh]]

----------------------------------------------------------------------------
(* Engine calls on one series *)

MaxLen == 4        \* longest generated series
MaxModels == 2     \* cap of the PG.metrics.models counter

\* values of the generated series: null and JSON numbers
GenValues == {Null, Zero, One, Num(3)}

RECURSIVE SeqsOf(_, _)
SeqsOf(S, n) ==
  IF n = 0 THEN {<< >>}
  ELSE {Append(q, v) : q \in SeqsOf(S, n - 1), v \in S}

\* a series of consecutive years from `first` on
SeriesOf(first, values) == [i \in 1..Len(values) |-> Point(first + i - 1, values[i])]

GenSeries == {SeriesOf(1, q) : q \in UNION {SeqsOf(GenValues, n) : n \in 0..MaxLen}}

\* the series [10, 10, 10, 10, 10, 100]
OutlierSeries == SeriesOf(1, <<Num(10), Num(10), Num(10), Num(10), Num(10), Num(100)>>)
\* the GDP-growth series (2018, 2.1) .. (2022, 2.0)
GdpSeries == SeriesOf(2018, <<<<21, 10>>, <<9, 5>>, Num(-8), <<11, 2>>, Num(2)>>)

\* a series with a missing year before an outlier: [0, null, 0, 0, 3]
GappedSeries == SeriesOf(1, <<Zero, Null, Zero, Zero, Num(3)>>)

InputSeries == GenSeries \cup {OutlierSeries, GdpSeries, GappedSeries}

Methods == {"zscore", "iqr", "both"}
Thresholds == {One, Num(2), <<5, 2>>}
MaxHorizon == 2    \* longest forecast horizon
\* confidence levels: two of the table and one outside it
Levels == {80, 90, 99}
HWOptions == [alpha : {<<1, 2>>}, beta : {<<1, 2>>}, horizon : 1..MaxHorizon, ci : Levels]

\* a browser with an empty cache, on line, at time 0
FreshBrowser == [cache |-> Null, now |-> 0, online |-> TRUE]

InitStats ==
  /\ series \in InputSeries
  /\ call = [op |-> "none"]
  /\ ret = Null
  /\ metrics = [requests |-> 0, nulls |-> 0, models |-> 0, charts |-> 0]
  /\ local = Null
  /\ browser = FreshBrowser

\* the engine is synchronous: a call is made when no call is running
Idle == call.op = "none"

CallPearson ==
  /\ Idle
  /\ call' = [op |-> "pearson"]
  /\ ret' = pearson(series, series)
  /\ UNCHANGED <<browser, series, metrics, local>>

CallCalcVolatility ==
  /\ Idle
  /\ series \in GenSeries
  /\ call' = [op |-> "calcVolatility"]
  /\ ret' = calcVolatility(series)
  /\ UNCHANGED <<browser, series, metrics, local>>

CallCalcStats ==
  /\ Idle
  /\ call' = [op |-> "calcStats"]
  /\ ret' = calcStats(series)
  /\ UNCHANGED <<browser, series, metrics, local>>

CallCalcCAGR ==
  /\ Idle
  /\ call' = [op |-> "calcCAGR"]
  /\ ret' = calcCAGR(series)
  /\ UNCHANGED <<browser, series, metrics, local>>

CallCalcChange ==
  /\ Idle
  /\ call' = [op |-> "calcChange"]
  /\ ret' = calcChange(series)
  /\ UNCHANGED <<browser, series, metrics, local>>

CallDetectAnomalies ==
  /\ Idle
  /\ \E m \in Methods, t \in Thresholds :
    /\ call' = [op |-> "detectAnomalies", method |-> m, threshold |-> t]
    /\ ret' = detectAnomalies(series, m, t)
    /\ UNCHANGED <<browser, series, metrics, local>>

\* the counter is raised on entry, before the series is found too short
CallHoltwinters_onEntry ==
  /\ Idle
  /\ series \in GenSeries
  /\ metrics.models < MaxModels
  /\ \E opt \in HWOptions :
    /\ call' = [op |-> "holtwinters", opt |-> opt]
    /\ ret' = holtwinters(series, opt)
    /\ metrics' = [metrics EXCEPT !.models = @ + 1]
    /\ UNCHANGED <<browser, series, local>>

CallHoltwinters ==
  /\ Idle
  /\ series \in GenSeries
  /\ metrics.models < MaxModels
  /\ \E opt \in HWOptions :
    LET r == holtwinters(series, opt)
    IN  /\ call' = [op |-> "holtwinters", opt |-> opt]
        /\ ret' = r
        /\ metrics' = IF r = Null THEN metrics
                      ELSE [metrics EXCEPT !.models = @ + 1]    \* PG.metrics.models++
        /\ UNCHANGED <<browser, series, local>>

\* the caller has consumed the result
Return ==
  /\ ~Idle
  /\ IF local = Null THEN TRUE ELSE local.pc = "done"
  /\ call' = [op |-> "none"]
  /\ ret' = Null
  /\ local' = Null
  /\ UNCHANGED <<browser, series, metrics>>

NextStats ==
  \/ CallPearson \/ CallCalcVolatility \/ CallDetectAnomalies \/ CallHoltwinters \/ Return
  \/ CallCalcStats \/ CallCalcCAGR \/ CallCalcChange

SpecStats == InitStats /\ [][NextStats]_vars

----------------------------------------------------------------------------
(* Properties of the engine calls on one series *)

\* the points of s whose value is not null
NonNull(s) == SelectSeq(s, LAMBDA d : d.value # Null)
AllEqual(s) == \A i, j \in 1..Len(s) : s[i].value = s[j].value

(* C1 as stated: for every series with at least 3 points of non-null value,
   pearson(s, s) returns 1.0. *)
C1_SelfCorrelationIsOne ==
  (call.op = "pearson" /\ Len(NonNull(series)) >= 3) => ret = One

(* C1 amended: for every series with at least 3 points of non-null value whose
   values are not all equal, pearson(s, s) returns 1.0. *)
C1_SelfCorrelationOfVaryingSeries ==
  (call.op = "pearson" /\ Len(NonNull(series)) >= 3 /\ ~AllEqual(NonNull(series)))
    => ret = One

C1_Witness ==
  /\ call.op = "pearson"
  /\ Len(NonNull(series)) >= 3
  /\ ~AllEqual(NonNull(series))
  /\ ret = One

DetectCall(s, m, t) ==
  call.op = "detectAnomalies" /\ series = s /\ call.method = m /\ call.threshold = t

(* C2 as stated: on [10,10,10,10,10,100] with method 'zscore' and threshold 2.5
   the anomalies list contains the point of value 100. *)
C2_OutlierFlagged ==
  DetectCall(OutlierSeries, "zscore", <<5, 2>>)
    => \E i \in 1..Len(ret.anomalies) : ret.anomalies[i].value = Num(100)

(* C2 amended: on [10,10,10,10,10,100] with method 'zscore' and threshold 2.5
   the anomalies list is empty and all six points are in normal (mean 25,
   sample variance 1350, so the z-score of 100 is 75/sqrt(1350) < 2.5). *)
C2_OutlierBelowThreshold ==
  DetectCall(OutlierSeries, "zscore", <<5, 2>>)
    => /\ ret.anomalies = << >>
       /\ ret.normal = OutlierSeries
       /\ ret.stats.mean = Num(25)
       /\ ret.stats.std = Sqrt(Num(1350))

C2_Witness ==
  /\ DetectCall(OutlierSeries, "zscore", <<5, 2>>)
  /\ ret.anomalies = << >>
  /\ Len(ret.normal) = 6

(* C3 as stated: on the GDP-growth series with method 'zscore' and threshold 2.0
   the anomalies list is exactly the 2020 point and the other four years are in
   normal. *)
C3_Only2020Flagged ==
  DetectCall(GdpSeries, "zscore", Num(2))
    => /\ Len(ret.anomalies) = 1
       /\ ret.anomalies[1].year = 2020
       /\ [i \in 1..Len(ret.normal) |-> ret.normal[i].year] = <<2018, 2019, 2021, 2022>>

(* C3 amended: on the GDP-growth series with method 'zscore' and threshold 2.0
   the anomalies list is empty and all five years, 2020 included, are in normal. *)
C3_NoYearFlagged ==
  DetectCall(GdpSeries, "zscore", Num(2))
    => /\ ret.anomalies = << >>
       /\ ret.normal = GdpSeries

C3_Witness ==
  /\ DetectCall(GdpSeries, "zscore", Num(2))
  /\ ret.anomalies = << >>
  /\ \E i \in 1..Len(ret.normal) : ret.normal[i].year = 2020

\* the indices of the observations whose actual value is not 0
NonzeroActuals(data) == SelectSeq([i \in 1..Len(data) |-> i], LAMBDA i : data[i] # Zero)

\* the mean of |residual_i / actual_i| * 100 over the observations of nonzero actual
MapeOverNonzero(errors, data) ==
  LET idx == NonzeroActuals(data)
  IN  RDiv(SumSeq([k \in 1..Len(idx) |->
                     RMul(RAbs(RDiv(errors[idx[k]], data[idx[k]])), Num(100))]),
           Num(Len(idx)))

(* C4: the MAPE holtwinters reports is the mean of |residual_i / actual_i| * 100
   over exactly the observations whose actual value is nonzero, each residual
   divided by its own actual. *)
C4_MapeOverNonzeroActuals ==
  (call.op = "holtwinters" /\ IsRecord(ret)
     /\ NonzeroActuals(Values(ret.historical)) # << >>)
    => ret.accuracy.mape
         = ToFixed(MapeOverNonzero(ret.errors, Values(ret.historical)), 100)

\* the year-over-year growth observations of s: consecutive valid values whose
\* earlier value is not 0
GrowthObservations(s) ==
  LET vals == Values(ValidPoints(s))
  IN  {i \in 2..Len(vals) : vals[i - 1] # Zero}

(* C5: calcVolatility returns null whenever the series yields fewer than 2
   growth observations, and a number only when at least 2 exist. *)
C5_NullBelowTwoGrowthObservations ==
  call.op = "calcVolatility"
    => (ret = Null <=> Cardinality(GrowthObservations(series)) < 2)

----------------------------------------------------------------------------
(* embed.js: Gaussian elimination with partial pivoting *)

\* F(v) with v computed once: const v = ..; then the statements F that use it
Const(v, F(_)) == CHOOSE r \in {F(x) : x \in {v}} : TRUE

\* the tolerance 1e-12 of the pivot test, as the exponent of ten
EpsExp == 12

RECURSIVE Pow10(_)
Pow10(k) == IF k = 0 THEN 1 ELSE 10 * Pow10(k - 1)

\* Math.abs(v) < 1e-12 for a matrix entry v held in units of 10^-e (the entry
\* is v * 10^-e).  A rational of this model has a denominator below 2^31, so
\* a nonzero one is above 10^-k for every k >= 10.
BelowEps(v, e) ==
  IF v[1] = 0 THEN TRUE
  ELSE IF e >= EpsExp THEN FracCmp(Abs(v[1]), v[2], Pow10(e - EpsExp), 1) < 0
  ELSE IF EpsExp - e >= 10 THEN FALSE
  ELSE FracCmp(Abs(v[1]), v[2], 1, Pow10(EpsExp - e)) < 0

\* pivoting switched off: the pivot is the diagonal entry
PivotRow_none(M, col, row, maxRow) == col

RECURSIVE PivotRow(_, _, _, _)
\* the row of the first largest |M[row][col]| among the rows col..n
PivotRow(M, col, row, maxRow) ==
  IF row > Len(M) THEN maxRow
  ELSE PivotRow(M, col, row + 1,
                IF RGt(RAbs(M[row][col]), RAbs(M[maxRow][col])) THEN row ELSE maxRow)

\* [M[col], M[maxRow]] = [M[maxRow], M[col]]
SwapRows(M, i, j) == [M EXCEPT ![i] = M[j], ![j] = M[i]]

\* M[row][j] -= factor * M[col][j] for the rows below col and j = col..n
Eliminate(M, col) ==
  [row \in 1..Len(M) |->
     IF row <= col THEN M[row]
     ELSE LET factor == RDiv(M[row][col], M[col][col])
          IN  [j \in 1..Len(M[row]) |->
                 IF j < col THEN M[row][j]
                 ELSE RSub(M[row][j], RMul(factor, M[col][j]))]]

RECURSIVE ForwardEliminate(_, _, _)
\* the loop over the columns: null when a pivot is below the tolerance
ForwardEliminate(M, col, e) ==
  IF col > Len(M) THEN M
  ELSE LET P == SwapRows(M, col, PivotRow(M, col, col + 1, col))
       IN  IF BelowEps(P[col][col], e) THEN Null
           ELSE ForwardEliminate(Eliminate(P, col), col + 1, e)

RECURSIVE BackTerm(_, _, _, _)
\* M[i][n] - M[i][i+1] x[i+1] - .. - M[i][j] x[j], where xs holds x[i+1..n]
BackTerm(M, i, j, xs) ==
  IF j = i THEN M[i][Len(M) + 1]
  ELSE RSub(BackTerm(M, i, j - 1, xs), RMul(M[i][j], xs[j - i]))

RECURSIVE BackSubstitute(_, _, _)
BackSubstitute(M, i, xs) ==
  IF i = 0 THEN xs
  ELSE BackSubstitute(M, i - 1, <<RDiv(BackTerm(M, i, Len(M), xs), M[i][i])>> \o xs)

\* solveLinearSystem(A, b) for A and b held in units of 10^-e
solveLinearSystem(A, b, e) ==
  LET M == [i \in 1..Len(A) |-> Append(A[i], b[i])]
      U == ForwardEliminate(M, 1, e)
  IN  IF U = Null THEN Null ELSE BackSubstitute(U, Len(A), << >>)

----------------------------------------------------------------------------
(* embed.js: ordinary least squares *)

\* column i of the design matrix X
Column(X, i) == [t \in 1..Len(X) |-> X[t][i]]
\* s = 0; for (t = 0; t < n; t++) s += u[t] * v[t]
Dot(u, v) == SumSeq([t \in 1..Len(u) |-> RMul(u[t], v[t])])

\* the residual sum of squares of y regressed on the columns of X, by the
\* normal equations; null when there are too few rows or X'X is singular
computeOLSResiduals(X, y) ==
  LET n == Len(X)
      k == Len(X[1])
      XtX == [i \in 1..k |-> [j \in 1..k |-> Dot(Column(X, i), Column(X, j))]]
      Xty == [i \in 1..k |-> Dot(Column(X, i), y)]
      residual(t, beta) == RSub(y[t], Dot(X[t], beta))
  IN  IF n <= k THEN Null
      ELSE Const(solveLinearSystem(XtX, Xty, 0),
                 LAMBDA beta :
                   IF beta = Null THEN Null
                   ELSE SumSeq([t \in 1..n |-> RSq(residual(t, beta))]))

----------------------------------------------------------------------------
(* Products of rationals too large for one machine integer: a natural number
   is a sequence of digits in base 10000, least significant first, without
   leading zeros *)

RECURSIVE BigOf(_)
BigOf(n) == IF n = 0 THEN << >> ELSE <<n % 10000>> \o BigOf(n \div 10000)

\* the digit k of x * y before the carries: the sum of x[i] * y[k + 1 - i]
BigConv(x, y, k) ==
  LET I == {i \in 1..Len(x) : k + 1 - i \in 1..Len(y)}
      RECURSIVE Sum(_)
      Sum(S) == IF S = {} THEN 0
                ELSE LET i == CHOOSE j \in S : TRUE
                     IN  x[i] * y[k + 1 - i] + Sum(S \ {i})
  IN  Sum(I)

RECURSIVE BigCarry(_, _, _, _, _)
BigCarry(x, y, k, n, carry) ==
  IF k > n THEN (IF carry = 0 THEN << >> ELSE BigOf(carry))
  ELSE LET d == BigConv(x, y, k) + carry
       IN  <<d % 10000>> \o BigCarry(x, y, k + 1, n, d \div 10000)

BigMul(x, y) ==
  IF x = << >> \/ y = << >> THEN << >>
  ELSE BigCarry(x, y, 1, Len(x) + Len(y) - 1, 0)

RECURSIVE BigProd(_)
\* the product of a sequence of natural numbers
BigProd(ns) ==
  IF ns = << >> THEN BigOf(1) ELSE BigMul(BigOf(ns[1]), BigProd(Tail(ns)))

RECURSIVE BigCmpFrom(_, _, _)
BigCmpFrom(x, y, i) ==
  IF i = 0 THEN 0
  ELSE IF x[i] < y[i] THEN -1
  ELSE IF x[i] > y[i] THEN 1
  ELSE BigCmpFrom(x, y, i - 1)

\* the order of two natural numbers: -1, 0 or 1
BigCmp(x, y) ==
  IF Len(x) < Len(y) THEN -1
  ELSE IF Len(x) > Len(y) THEN 1
  ELSE BigCmpFrom(x, y, Len(x))

\* the product of the rationals fs (all >= 0) compared with K / L
RadCmp(fs, K, L) ==
  BigCmp(BigProd([i \in 1..Len(fs) |-> fs[i][1]] \o <<L>>),
         BigProd([i \in 1..Len(fs) |-> fs[i][2]] \o <<K>>))

----------------------------------------------------------------------------
(* embed.js: the p-value of an F statistic

   betaIncomplete evaluates front * (continued fraction), which is the
   regularised incomplete beta function I_x(a, b), and returns 1 minus it.
   The model takes the number the continued fraction converges to:
     a whole:  1 - I_x(a, b) = sqrt((1-x)^(2b)) * sum_{j<a} (b)_j / j! x^j
     b whole:  1 - I_x(a, b) = 1 - sqrt(x^(2a)) * sum_{j<b} (a)_j / j! (1-x)^j
   The value is kept as [form, fs]: "root" is the square root of the product
   of fs, "oneMinusRoot" is one minus it.  With a and b both halves of odd
   numbers the value is an arc tangent, and with a whole and 1 - x < 1/1000
   the 200 terms of the continued fraction have not converged: neither is
   modelled, and betaIncomplete is undefined there. *)

Root(fs) == [form |-> "root", fs |-> fs]
OneMinusRoot(fs) == [form |-> "oneMinusRoot", fs |-> fs]
\* the p-values 0 and 1
PConst(q) == Root(<<q>>)

Copies(v, n) == [i \in 1..n |-> v]

RECURSIVE BetaSum(_, _, _, _, _)
\* sum_{j <= i < n} (q)_i / i! x^i, where term is the summand for i = j
BetaSum(q, x, j, n, term) ==
  IF j = n THEN Zero
  ELSE RAdd(term, BetaSum(q, x, j + 1, n,
                          RMul(term, RMul(RDiv(RAdd(q, Num(j)), Num(j + 1)), x))))

\* the continued fraction has converged within its 200 terms
Converged(x) == RGe(RSub(One, x), <<1, 1000>>)

betaIncomplete(a, b, x) ==
  IF RLt(x, Zero) \/ RGt(x, One) THEN (IF RLt(x, Zero) THEN PConst(Zero) ELSE PConst(One))
  ELSE IF x = Zero \/ x = One THEN PConst(x)
  ELSE CASE a[2] = 1 /\ Converged(x) ->
              LET S == BetaSum(b, x, 0, a[1], One)
              IN  Root(Copies(RSub(One, x), RMul(Num(2), b)[1]) \o <<S, S>>)
         [] a[2] = 2 /\ b[2] = 1 ->
              LET S == BetaSum(a, RSub(One, x), 0, b[1], One)
              IN  OneMinusRoot(Copies(x, RMul(Num(2), a)[1]) \o <<S, S>>)

fToPValue(f, d1, d2) ==
  IF RLe(f, Zero) \/ d1 <= 0 \/ d2 <= 0 THEN PConst(One)
  ELSE LET x == RDiv(Num(d2), RAdd(Num(d2), RMul(Num(d1), f)))
       IN  betaIncomplete(Norm(d2, 2), Norm(d1, 2), x)

\* pValue < c for a rational 0 < c < 1
PLess(p, c) ==
  IF p.form = "root" THEN RadCmp(p.fs, c[1] * c[1], c[2] * c[2]) < 0
  ELSE RadCmp(p.fs, (c[2] - c[1]) * (c[2] - c[1]), c[2] * c[2]) > 0

RECURSIVE PRoundIn(_, _, _)
\* Math.round(pValue * 10000): the largest k in lo..hi with k - 1/2 <= 10000 p
PRoundIn(p, lo, hi) ==
  IF lo = hi THEN lo
  ELSE LET mid == (lo + hi + 1) \div 2
           ok == IF p.form = "root"
                 THEN RadCmp(p.fs, (2 * mid - 1) * (2 * mid - 1), 400000000) >= 0
                 ELSE RadCmp(p.fs, (20001 - 2 * mid) * (20001 - 2 * mid), 400000000) <= 0
       IN  IF ok THEN PRoundIn(p, mid, hi) ELSE PRoundIn(p, lo, mid - 1)

\* Math.round(pValue * 10000) / 10000
PRound(p) == Norm(PRoundIn(p, 0, 10000), 10000)

RECURSIVE LongDivide(_, _, _, _)
\* the quotient so far is acc and the remainder r: `digits` more decimal
\* digits, then round half up
LongDivide(r, d, digits, acc) ==
  IF digits = 0 THEN acc + (IF 2 * r >= d THEN 1 ELSE 0)
  ELSE LongDivide((10 * r) % d, d, digits - 1, 10 * acc + (10 * r) \div d)

\* Math.round(v * 1000) / 1000 of a finite v
Round3(v) == Norm(LongDivide(v[1] % v[2], v[2], 3, v[1] \div v[2]), 1000)

----------------------------------------------------------------------------
(* embed.js: the Granger test *)

\* the significance level
Alpha == <<1, 20>>

\* the value of the last point of s for year y
LastAt(s, y) ==
  LET I == {i \in 1..Len(s) : s[i].year = y}
  IN  s[CHOOSE i \in I : \A j \in I : j <= i].value

\* the years with a finite value in both series, in increasing order, each with
\* its x and y
Align(xSeries, ySeries) ==
  LET xs == ValidPoints(xSeries)
      ys == ValidPoints(ySeries)
      years == SortInts({xs[i].year : i \in 1..Len(xs)} \cap {ys[i].year : i \in 1..Len(ys)})
  IN  [i \in 1..Len(years) |->
         [year |-> years[i], x |-> LastAt(xs, years[i]), y |-> LastAt(ys, years[i])]]

\* three observations for each lag, and no more
MinObservations_bare(maxLag) == maxLag * 3
\* aligned.length < maxLag * 3 + 2 is too few
MinObservations(maxLag) == maxLag * 3 + 2

\* the rows [1, y(t-1) .. y(t-lag)] of the restricted model
RestrictedRows(aligned, lag) ==
  [r \in 1..(Len(aligned) - lag) |->
     <<One>> \o [l \in 1..lag |-> aligned[r + lag - l].y]]

\* the rows [1, y(t-1) .. y(t-lag), x(t-1) .. x(t-lag)] of the unrestricted one
UnrestrictedRows(aligned, lag) ==
  [r \in 1..(Len(aligned) - lag) |->
     <<One>> \o [l \in 1..lag |-> aligned[r + lag - l].y]
             \o [l \in 1..lag |-> aligned[r + lag - l].x]]

\* the F statistic of a lag from its two residual sums
FStat(rssR, rssU, dfNum, dfDen) ==
  RDiv(RDiv(RSub(rssR, rssU), Num(dfNum)), RDiv(rssU, Num(dfDen)))

\* one pass of the loop over the lags: null when the lag is skipped
LagResult(aligned, lag) ==
  LET n == Len(aligned)
      effectiveN == n - lag
      yVals == [r \in 1..effectiveN |-> aligned[r + lag].y]
      dfNum == lag
      dfDen == effectiveN - 2 * lag - 1
      Pushed(rssR, rssU, fStat) ==
        Const(fToPValue(fStat, dfNum, dfDen),
              LAMBDA pValue :
                [lag |-> lag,
                 fStatistic |-> Round3(fStat),
                 pValue |-> PRound(pValue),
                 significant |-> PLess(pValue, Alpha),
                 rssRestricted |-> rssR,
                 rssUnrestricted |-> rssU,
                 observations |-> effectiveN])
      Tested(rssR, rssU) ==
        IF rssR = Null \/ rssU = Null THEN Null
        ELSE IF RLe(rssU, Zero) THEN Null
        ELSE IF dfDen <= 0 THEN Null
        ELSE Const(FStat(rssR, rssU, dfNum, dfDen),
                   LAMBDA fStat : Pushed(rssR, rssU, fStat))
  IN  IF effectiveN < lag * 2 + 2 THEN Null
      ELSE Const(computeOLSResiduals(RestrictedRows(aligned, lag), yVals),
                 LAMBDA rssR :
                   Const(computeOLSResiduals(UnrestrictedRows(aligned, lag), yVals),
                         LAMBDA rssU : Tested(rssR, rssU)))

\* a skipped lag ends the whole loop
AfterSkip_break(lag, maxLag) == maxLag + 1
\* continue: a skipped lag is followed by the next one
AfterSkip(lag, maxLag) == lag + 1

RECURSIVE LagLoop(_, _, _, _)
\* for (lag = ..; lag <= maxLag; lag++)
LagLoop(aligned, lag, maxLag, results) ==
  IF lag > maxLag THEN results
  ELSE LET r == LagResult(aligned, lag)
       IN  IF r = Null THEN LagLoop(aligned, AfterSkip(lag, maxLag), maxLag, results)
           ELSE LagLoop(aligned, lag + 1, maxLag, Append(results, r))

\* the result with the larger p-value
BetterOf_larger(a, b) == IF RLt(a.pValue, b.pValue) THEN b ELSE a
\* (a, b) => a.pValue < b.pValue ? a : b
BetterOf(a, b) == IF RLt(a.pValue, b.pValue) THEN a ELSE b

RECURSIVE Best(_)
\* results.reduce(BetterOf) of a non-empty list
Best(results) ==
  IF Len(results) = 1 THEN results[1]
  ELSE BetterOf(Best(SubSeq(results, 1, Len(results) - 1)), results[Len(results)])

\* what follows the loop: null without a result, else the best one
GrangerReturn(results) ==
  IF Len(results) = 0 THEN Null
  ELSE LET best == Best(results)
       IN  [results |-> results,
            bestLag |-> best.lag,
            bestF |-> best.fStatistic,
            bestP |-> best.pValue,
            causal |-> best.significant]

grangerTest(xSeries, ySeries, maxLag) ==
  LET aligned == Align(xSeries, ySeries)
  IN  IF Len(aligned) < MinObservations(maxLag) THEN Null
      ELSE GrangerReturn(LagLoop(aligned, 1, maxLag, << >>))

----------------------------------------------------------------------------
(* engine.js and embed.js: the matrices over several datasets.  A dataset is
   [label, data]; an insight is kept as the fields its text is written from. *)

RECURSIVE PairsFrom(_, _, _)
\* the pairs <<i, j>> the two nested loops visit from row i on, j > i only or
\* every j # i
PairsFrom(i, k, upper) ==
  IF i > k THEN << >>
  ELSE SelectSeq([j \in 1..k |-> <<i, j>>],
                 LAMBDA q : IF upper THEN q[2] > q[1] ELSE q[2] # q[1])
         \o PairsFrom(i + 1, k, upper)

\* for (i = 0; i < k; i++) for (j = i + 1; j < k; j++)
UpperPairs(k) == PairsFrom(1, k, TRUE)
\* for (i = 0; i < k; i++) for (j = 0; j < k; j++) if (i === j) continue
OrderedPairs(k) == PairsFrom(1, k, FALSE)

\* the cells of the correlation matrix: 1.0 on the diagonal, and one call of
\* pearson for i < j written to both matrix[i][j] and matrix[j][i]
PearsonCells(datasets) ==
  [i \in 1..Len(datasets) |->
     [j \in 1..Len(datasets) |->
        IF i = j THEN One
        ELSE IF i < j THEN pearson(datasets[i].data, datasets[j].data)
        ELSE pearson(datasets[j].data, datasets[i].data)]]

Strength(abs) ==
  IF RGe(abs, Norm(85, 100)) THEN "very strong"
  ELSE IF RGe(abs, Norm(65, 100)) THEN "strong"
  ELSE IF RGe(abs, Norm(45, 100)) THEN "moderate"
  ELSE "weak"

\* if (r === null) continue; if (abs >= 0.45) insights.push(..)
Noted(r) == r # Null /\ RGe(RAbs(r), Norm(45, 100))

RECURSIVE SortByAbsR(_)
\* insights.sort((a, b) => Math.abs(b.r) - Math.abs(a.r)), a stable sort
SortByAbsR(list) ==
  IF list = << >> THEN << >>
  ELSE LET e == list[Len(list)]
           sorted == SortByAbsR(SubSeq(list, 1, Len(list) - 1))
           before == SelectSeq(sorted, LAMBDA o : RGe(RAbs(o.r), RAbs(e.r)))
           after == SelectSeq(sorted, LAMBDA o : RLt(RAbs(o.r), RAbs(e.r)))
       IN  before \o <<e>> \o after

\* list.slice(0, n)
Slice_whole(list, n) == list
Slice(list, n) == SubSeq(list, 1, IF Len(list) < n THEN Len(list) ELSE n)

PearsonInsights(labels, matrix) ==
  LET pairs == SelectSeq(UpperPairs(Len(labels)), LAMBDA q : Noted(matrix[q[1]][q[2]]))
  IN  [n \in 1..Len(pairs) |->
         LET r == matrix[pairs[n][1]][pairs[n][2]]
         IN  [first |-> labels[pairs[n][1]], second |-> labels[pairs[n][2]],
              strength |-> Strength(RAbs(r)),
              sign |-> IF RGt(r, Zero) THEN "positive" ELSE "negative",
              r |-> r]]

\* what follows the first pair of loops
PearsonReturn(datasets, matrix) ==
  LET labels == [i \in 1..Len(datasets) |-> datasets[i].label]
  IN  [labels |-> labels,
       matrix |-> matrix,
       insights |-> Slice(SortByAbsR(PearsonInsights(labels, matrix)), 5)]

pearsonMatrix(datasets) ==
  Const(PearsonCells(datasets), LAMBDA matrix : PearsonReturn(datasets, matrix))

\* matrix[i][i] = { causal: false, pValue: 1, fStat: 0 }
SelfCell == [causal |-> FALSE, pValue |-> One, fStat |-> Zero]
\* the cell of a test: null when grangerTest returned null
CellOf(result) ==
  IF result = Null THEN Null
  ELSE [causal |-> result.causal, pValue |-> result.bestP, fStat |-> result.bestF,
        lag |-> result.bestLag]

RECURSIVE SortByPValue(_)
\* causalPairs.sort((a, b) => a.pValue - b.pValue), a stable sort
SortByPValue(list) ==
  IF list = << >> THEN << >>
  ELSE LET e == list[Len(list)]
           sorted == SortByPValue(SubSeq(list, 1, Len(list) - 1))
           before == SelectSeq(sorted, LAMBDA o : RLe(o.pValue, e.pValue))
           after == SelectSeq(sorted, LAMBDA o : RGt(o.pValue, e.pValue))
       IN  before \o <<e>> \o after

\* the colour of an insight
Bucket(pValue) ==
  IF RLt(pValue, <<1, 100>>) THEN "#00D4FF"
  ELSE IF RLt(pValue, Alpha) THEN "#A78BFA"
  ELSE "#F59E0B"

CausalInsights(causalPairs) ==
  LET top == Slice(causalPairs, 8)
  IN  [n \in 1..Len(top) |->
         [from |-> top[n].from, to |-> top[n].to, lag |-> top[n].lag,
          fStat |-> top[n].fStat, pValue |-> top[n].pValue,
          color |-> Bucket(top[n].pValue), significant |-> TRUE]]

----------------------------------------------------------------------------
(* Calls of the linear solver *)

MaxEntry == 2      \* largest magnitude of a generated matrix entry

\* the exponent of a system held in units of 1e-13
TinyExp == EpsExp + 1

Entries == {Num(i) : i \in -MaxEntry..MaxEntry}
RightSides == {Num(i) : i \in 0..MaxEntry}

GenSystems ==
  UNION {{[A |-> A, b |-> b] : A \in SeqsOf(SeqsOf(Entries, n), n),
                               b \in SeqsOf(RightSides, n)} : n \in 1..2}

\* [[2,1],[1,3]] x = [5,10] and the singular [[1,2],[2,4]] x = [5,10]
KnownSystem == [A |-> <<<<Num(2), Num(1)>>, <<Num(1), Num(3)>>>>, b |-> <<Num(5), Num(10)>>]
SingularSystem == [A |-> <<<<Num(1), Num(2)>>, <<Num(2), Num(4)>>>>, b |-> <<Num(5), Num(10)>>]

Systems == GenSystems \cup {KnownSystem, SingularSystem}

InitSolve ==
  /\ series = << >>
  /\ call = [op |-> "none"]
  /\ ret = Null
  /\ metrics = [requests |-> 0, nulls |-> 0, models |-> 0, charts |-> 0]
  /\ local = Null
  /\ browser = FreshBrowser

CallSolveLinearSystem ==
  /\ Idle
  /\ \E s \in Systems, e \in {0, TinyExp} :
    /\ call' = [op |-> "solveLinearSystem", A |-> s.A, b |-> s.b, e |-> e]
    /\ ret' = solveLinearSystem(s.A, s.b, e)
    /\ UNCHANGED <<browser, series, metrics, local>>

NextSolve == CallSolveLinearSystem \/ Return

SpecSolve == InitSolve /\ [][NextSolve]_vars

----------------------------------------------------------------------------
(* Properties of the linear solver *)

SolveCall == call.op = "solveLinearSystem"

\* the determinant of a 1 x 1 or 2 x 2 matrix
Det(A) ==
  IF Len(A) = 1 THEN A[1][1]
  ELSE RSub(RMul(A[1][1], A[2][2]), RMul(A[1][2], A[2][1]))

\* row i of A times x
RowTimes(A, i, x) == SumSeq([j \in 1..Len(x) |-> RMul(A[i][j], x[j])])
Solves(A, x, b) == \A i \in 1..Len(A) : RowTimes(A, i, x) = b[i]

\* C9 as stated: a vector x with A x = b is returned for every non-singular
\* system and null for every singular one, whatever the magnitude of the
\* entries.
C9_SolvesEveryNonSingularSystem ==
  SolveCall =>
    /\ (Det(call.A)[1] # 0 => ret # Null /\ Solves(call.A, ret, call.b))
    /\ (Det(call.A)[1] = 0 => ret = Null)

\* C9 amended: null is returned exactly when the largest remaining entry of
\* some column is below 1e-12 in magnitude; in real arithmetic that covers
\* every singular system, and also the non-singular systems whose entries are
\* all below 1e-12.  Any vector returned solves the system, [[2,1],[1,3]] x =
\* [5,10] gives [1,3] and [[1,2],[2,4]] gives null.
C9_NullExactlyBelowPivotTolerance ==
  SolveCall =>
    /\ (ret # Null => Solves(call.A, ret, call.b))
    /\ (call.e = 0 => (ret = Null <=> Det(call.A)[1] = 0))
    /\ (call.e = TinyExp => ret = Null)
    /\ (call.A = KnownSystem.A /\ call.b = KnownSystem.b /\ call.e = 0
          => ret = <<Num(1), Num(3)>>)
    /\ (call.A = SingularSystem.A => ret = Null)

\* the known system has been solved
C9_Witness ==
  /\ SolveCall
  /\ call.A = KnownSystem.A /\ call.b = KnownSystem.b /\ call.e = 0
  /\ ret = <<Num(1), Num(3)>>

----------------------------------------------------------------------------
(* Calls of the Granger test.  The test runs in steps, one per pass of its
   loop over the lags; local.skipped lists the lags the loop has skipped.

   The degrees of freedom of lag L on n aligned years are (L, n - 3L - 1),
   so the p-value is modelled for 6 years at maxLag 1 and for 8 years at
   maxLag 1 or 2; a regression that fits without error has the residual sum
   0 here, where the doubles may leave a rounding residue. *)

MaxLags == {1, 2}

\* Y(t) = 0.8 X(t-1) + noise(t), the series at rest before the first year
Coupling == <<4, 5>>
NoiseValues == {<<-1, 5>>, Zero, <<1, 5>>}
SyntheticX == {<<One, Zero, Zero, Zero, One, One>>}

Synthetic(X, noise) ==
  [kind |-> "synthetic",
   x |-> SeriesOf(1, X),
   y |-> SeriesOf(1, [t \in 1..Len(X) |->
                        RAdd(RMul(Coupling, IF t = 1 THEN Zero ELSE X[t - 1]), noise[t])])]

SyntheticData == {Synthetic(X, noise) : X \in SyntheticX, noise \in SeqsOf(NoiseValues, 6)}

\* eight years of 0/1 values
BinaryX ==
  {<<Zero, Zero, One, One, Zero, Zero, One, Zero>>,
   <<Zero, One, One, Zero, Zero, One, One, Zero>>}

BinaryData ==
  {[kind |-> "binary", x |-> SeriesOf(1, X), y |-> SeriesOf(1, Y)] :
     X \in BinaryX, Y \in SeqsOf({Zero, One}, 8)}

\* a lag-1 p-value between 0.04995 and 0.05
EdgeData ==
  [kind |-> "edge",
   x |-> SeriesOf(1, <<Num(1), Num(0), Num(0), Num(3), Num(0), Num(1)>>),
   y |-> SeriesOf(1, <<Num(3), Num(0), Num(0), Num(2), Num(2), Num(3)>>)]

\* series that overlap in six of their years: y starts two years late, or
\* each has a null where the other has a value
GapData ==
  {[kind |-> "gap", x |-> SeriesOf(1, X), y |-> SeriesOf(3, X)] : X \in BinaryX}
  \cup
  {[kind |-> "gap",
    x |-> SeriesOf(1, <<One, Null, Zero, Zero, One, One, Zero, One>>),
    y |-> SeriesOf(1, <<Zero, One, One, Zero, Null, Zero, One, One>>)]}

GrangerData == SyntheticData \cup BinaryData \cup GapData \cup {EdgeData}

InitGranger ==
  /\ series = << >>
  /\ call = [op |-> "none"]
  /\ ret = Null
  /\ metrics = [requests |-> 0, nulls |-> 0, models |-> 0, charts |-> 0]
  /\ local = Null
  /\ browser = FreshBrowser

\* PG.grangerTest(x, y, maxLag) up to its loop
GrangerBegin ==
  /\ Idle
  /\ \E d \in GrangerData, swap \in BOOLEAN, maxLag \in MaxLags :
    LET xs == IF swap THEN d.y ELSE d.x
        ys == IF swap THEN d.x ELSE d.y
        aligned == Align(xs, ys)
    IN  /\ call' = [op |-> "grangerTest", kind |-> d.kind, swapped |-> swap,
                    x |-> xs, y |-> ys, maxLag |-> maxLag]
        /\ ret' = Null
        /\ local' = [pc |-> IF Len(aligned) < MinObservations(maxLag) THEN "done" ELSE "loop",
                     aligned |-> aligned, lag |-> 1, results |-> << >>, skipped |-> << >>]
        /\ UNCHANGED <<browser, series, metrics>>

\* one pass of the loop
GrangerLag ==
  /\ local # Null
  /\ local.pc = "loop"
  /\ local.lag <= call.maxLag
  /\ LET r == LagResult(local.aligned, local.lag)
     IN  local' = IF r = Null
                  THEN [local EXCEPT !.lag = AfterSkip(@, call.maxLag),
                                     !.skipped = Append(@, local.lag)]
                  ELSE [local EXCEPT !.lag = @ + 1, !.results = Append(@, r)]
  /\ UNCHANGED <<browser, series, call, ret, metrics>>

\* the loop is over: pick the best lag and return
GrangerEnd ==
  /\ local # Null
  /\ local.pc = "loop"
  /\ local.lag > call.maxLag
  /\ ret' = GrangerReturn(local.results)
  /\ local' = [local EXCEPT !.pc = "done"]
  /\ UNCHANGED <<browser, series, call, metrics>>

NextGranger == GrangerBegin \/ GrangerLag \/ GrangerEnd \/ Return

SpecGranger == InitGranger /\ [][NextGranger]_vars

----------------------------------------------------------------------------
(* Properties of the Granger test *)

\* a call of grangerTest has returned
GrangerDone == call.op = "grangerTest" /\ local.pc = "done"

\* the result of lag l in a list of results
HasLag(results, l) == \E i \in 1..Len(results) : results[i].lag = l

\* the p-value of a result before it was rounded, from the residual sums the
\* result carries
UnroundedP(e) ==
  LET dfDen == e.observations - 2 * e.lag - 1
  IN  fToPValue(FStat(e.rssRestricted, e.rssUnrestricted, e.lag, dfDen), e.lag, dfDen)

\* C6: on data generated as Y(t) = 0.8 X(t-1) + small noise, where X's past
\* improves the fit of Y significantly (F(1,2) above its 5 % point 18.51),
\* grangerTest(X, Y) reports causal with a p-value below 0.05 at lag 1, and
\* grangerTest(Y, X) reports not causal or a higher p-value.
C6_SyntheticDirectionDetected ==
  (/\ GrangerDone
   /\ call.kind = "synthetic" /\ ~call.swapped /\ call.maxLag = 1
   /\ ret # Null
   /\ RGe(ret.bestF, Num(19)))
  => LET reverse == grangerTest(call.y, call.x, call.maxLag)
     IN  /\ ret.causal
         /\ RLt(ret.bestP, Alpha)
         /\ ret.bestLag = 1
         /\ (reverse = Null \/ ~reverse.causal \/ RGt(reverse.bestP, ret.bestP))

\* C7 as stated: bestP is the least p-value of the results, bestLag a lag
\* that has it, and causal holds exactly when the reported bestP is below
\* 0.05.
C7_CausalIffBestPBelowAlpha ==
  (GrangerDone /\ ret # Null) =>
    /\ \E i \in 1..Len(ret.results) :
         ret.results[i].lag = ret.bestLag /\ ret.results[i].pValue = ret.bestP
    /\ \A j \in 1..Len(ret.results) : RLe(ret.bestP, ret.results[j].pValue)
    /\ (ret.causal <=> RLt(ret.bestP, Alpha))

\* C7 amended: bestP is the least of the rounded p-values of the results and
\* bestLag is the last lag that has it; causal holds exactly when that lag's
\* p-value before rounding is below 0.05.  So bestP < 0.05 implies causal and
\* causal implies bestP <= 0.05, where bestP = 0.05 with causal can happen.
C7_CausalIffBestLagSignificant ==
  (GrangerDone /\ ret # Null) =>
    \E i \in 1..Len(ret.results) :
      LET best == ret.results[i]
      IN  /\ best.lag = ret.bestLag
          /\ best.pValue = ret.bestP
          /\ best.fStatistic = ret.bestF
          /\ \A j \in 1..Len(ret.results) : RLe(ret.bestP, ret.results[j].pValue)
          /\ \A j \in (i + 1)..Len(ret.results) : RLt(ret.bestP, ret.results[j].pValue)
          /\ (ret.causal <=> PLess(UnroundedP(best), Alpha))
          /\ (RLt(ret.bestP, Alpha) => ret.causal)
          /\ (ret.causal => RLe(ret.bestP, Alpha))

\* two lags gave a result, the second the better one, and it is significant
C7_Witness ==
  /\ GrangerDone
  /\ ret # Null
  /\ Len(ret.results) = 2
  /\ ret.bestLag = 2
  /\ RLt(ret.results[2].pValue, ret.results[1].pValue)
  /\ ret.causal

\* C8: a lag whose restricted or unrestricted regression is singular, or
\* whose unrestricted residual sum is <= 0, is left out of the results and
\* the loop goes on: when the test returns, every lag 1..maxLag has been
\* either skipped or given a result, every result has a positive
\* unrestricted residual sum, and null is returned only without any result.
C8_SkippedLagDoesNotAbort ==
  (GrangerDone /\ Len(local.aligned) >= MinObservations(call.maxLag)) =>
    /\ Len(local.results) + Len(local.skipped) = call.maxLag
    /\ \A l \in 1..call.maxLag :
         HasLag(local.results, l) <=> ~(\E i \in 1..Len(local.skipped) : local.skipped[i] = l)
    /\ \A i \in 1..Len(local.skipped) :
         LET l == local.skipped[i]
             yVals == [r \in 1..(Len(local.aligned) - l) |-> local.aligned[r + l].y]
             rssR == computeOLSResiduals(RestrictedRows(local.aligned, l), yVals)
             rssU == computeOLSResiduals(UnrestrictedRows(local.aligned, l), yVals)
         IN  rssR = Null \/ rssU = Null \/ RLe(rssU, Zero)
    /\ \A i \in 1..Len(local.results) : RGt(local.results[i].rssUnrestricted, Zero)
    /\ (ret = Null <=> local.results = << >>)
    /\ (ret # Null => ret.results = local.results)

\* lag 1 was skipped, lag 2 was still evaluated
C8_Witness ==
  /\ GrangerDone
  /\ call.maxLag = 2
  /\ Len(local.aligned) >= MinObservations(call.maxLag)
  /\ local.skipped = <<1, 2>>

\* the lag l of the returned call was skipped
Skipped(l) == \E i \in 1..Len(local.skipped) : local.skipped[i] = l

\* C23: grangerTest returns null, without entering its loop, on fewer than
\* 3 * maxLag + 2 aligned years; on at least that many, every lag L of
\* 1..maxLag has n - L >= 2L + 2, more rows than columns in the restricted
\* and in the unrestricted design matrix, and dfDen = n - L - 2L - 1 >= 1, so
\* that a lag is skipped only for a singular fit or an unrestricted residual
\* sum <= 0.
C23_NoLagSkippedForItsCount ==
  GrangerDone =>
    LET n == Len(local.aligned)
        m == call.maxLag
    IN  IF n < 3 * m + 2
        THEN ret = Null /\ local.results = << >> /\ local.skipped = << >>
        ELSE \A L \in 1..m :
               LET Xr == RestrictedRows(local.aligned, L)
                   Xu == UnrestrictedRows(local.aligned, L)
                   yVals == [r \in 1..(n - L) |-> local.aligned[r + L].y]
               IN  /\ n - L >= 2 * L + 2
                   /\ Len(Xr) = n - L /\ Len(Xr) > Len(Xr[1])
                   /\ Len(Xu) = n - L /\ Len(Xu) > Len(Xu[1])
                   /\ Len(Xu[1]) = 2 * L + 1
                   /\ (n - L) - 2 * L - 1 >= 1
                   /\ Skipped(L) \/ HasLag(local.results, L)
                   /\ Skipped(L) =>
                        Const(computeOLSResiduals(Xu, yVals),
                              LAMBDA rssU :
                                \/ rssU = Null
                                \/ RLe(rssU, Zero)
                                \/ computeOLSResiduals(Xr, yVals) = Null)

\* exactly 3 * maxLag + 2 aligned years, and the largest lag was tested
C23_Witness ==
  /\ GrangerDone
  /\ call.maxLag = 2
  /\ Len(local.aligned) = 3 * call.maxLag + 2
  /\ HasLag(local.results, 2)
  /\ Len(local.results) + Len(local.skipped) = 2

----------------------------------------------------------------------------
(* pipeline.js: the composite recession score *)

RECESSION_INDICATORS ==
  <<[code |-> "NY.GDP.MKTP.KD.ZG", name |-> "GDP Growth", weight |-> <<3, 10>>],
    [code |-> "SL.UEM.TOTL.ZS", name |-> "Unemployment", weight |-> <<1, 5>>],
    [code |-> "FP.CPI.TOTL.ZG", name |-> "Inflation", weight |-> <<3, 20>>],
    [code |-> "NE.EXP.GNFS.ZS", name |-> "Exports (% GDP)", weight |-> <<3, 20>>],
    [code |-> "BX.KLT.DINV.WD.GD.ZS", name |-> "FDI Inflows", weight |-> <<1, 10>>],
    [code |-> "GC.DOD.TOTL.GD.ZS", name |-> "Govt Debt (% GDP)", weight |-> <<1, 10>>]>>

Indicators == 1..Len(RECESSION_INDICATORS)

\* ind.signal(v, prev) of indicator i
signal(i, v, prev) ==
  CASE i = 1 -> IF RLt(v, Zero) THEN One ELSE IF RLt(v, One) THEN <<1, 2>> ELSE Zero
    [] i = 2 -> IF prev = Null THEN Zero
                ELSE LET delta == RSub(v, prev)
                     IN  IF RGt(delta, Num(2)) THEN One
                         ELSE IF RGt(delta, <<1, 2>>) THEN <<3, 5>>
                         ELSE IF RGt(delta, Zero) THEN <<3, 10>>
                         ELSE Zero
    [] i = 3 -> IF RGt(v, Num(15)) THEN One
                ELSE IF RGt(v, Num(10)) THEN <<7, 10>>
                ELSE IF RGt(v, Num(5)) THEN <<3, 10>>
                ELSE IF RLt(v, Zero) THEN <<1, 2>>
                ELSE Zero
    [] i = 4 -> IF prev = Null THEN Zero
                ELSE LET delta == RSub(v, prev)
                     IN  IF RLt(delta, Num(-5)) THEN <<4, 5>>
                         ELSE IF RLt(delta, Num(-2)) THEN <<2, 5>>
                         ELSE Zero
    [] i = 5 -> IF prev = Null THEN Zero
                ELSE LET delta == RSub(v, prev)
                     IN  IF RLt(delta, Num(-2)) THEN <<4, 5>>
                         ELSE IF RLt(delta, <<-1, 2>>) THEN <<2, 5>>
                         ELSE Zero
    [] i = 6 -> IF RGt(v, Num(100)) THEN <<4, 5>>
                ELSE IF RGt(v, Num(80)) THEN <<1, 2>>
                ELSE IF RGt(v, Num(60)) THEN <<1, 5>>
                ELSE Zero

\* the years at which the series s has a finite value
ValidYears(s) == {s[j].year : j \in {k \in 1..Len(s) : IsValid(s[k].value)}}

\* Object.keys(yearData) in increasing order
TimelineYears(results) == SortInts(UNION {ValidYears(results[i].data) : i \in Indicators})

\* yearData[year]: the value of every indicator that has a finite one at year
YearData(results, year) ==
  [i \in {j \in Indicators : year \in ValidYears(results[j].data)} |->
     LastAt(ValidPoints(results[i].data), year)]

\* a value that || keeps: neither 0 nor NaN
Truthy(v) == v # Zero /\ ~IsNaN(v)

\* prevYearData ? (prevYearData[ind.code] || null) : null
PrevVal(prevYearData, i) ==
  IF prevYearData = Null THEN Null
  ELSE IF i \in DOMAIN prevYearData /\ Truthy(prevYearData[i]) THEN prevYearData[i]
  ELSE Null

SignalStatus(sig) ==
  IF RGe(sig, <<7, 10>>) THEN "danger" ELSE IF RGe(sig, <<3, 10>>) THEN "warning" ELSE "safe"

RiskLevel(probability) ==
  IF RGe(probability, <<3, 5>>) THEN "high"
  ELSE IF RGe(probability, <<7, 20>>) THEN "elevated"
  ELSE IF RGe(probability, <<3, 20>>) THEN "moderate"
  ELSE "low"

\* the entry of signals for indicator i with value val and signal sig
SignalRecord(i, val, sig) ==
  [name |-> RECESSION_INDICATORS[i].name,
   value |-> val,
   signal |-> sig,
   weight |-> RECESSION_INDICATORS[i].weight,
   contribution |-> RMul(sig, RECESSION_INDICATORS[i].weight),
   status |-> SignalStatus(sig)]

\* totalWeight > 0 ? Math.min(1, compositeSignal / totalWeight) : 0
Probability(compositeSignal, totalWeight) ==
  IF RGt(totalWeight, Zero)
  THEN (IF RLt(One, RDiv(compositeSignal, totalWeight)) THEN One
        ELSE RDiv(compositeSignal, totalWeight))
  ELSE Zero

\* the probability of a year from the signals of its indicators
YearProbability(signals) ==
  Probability(SumSeq([k \in 1..Len(signals) |-> signals[k].contribution]),
              SumSeq([k \in 1..Len(signals) |-> signals[k].weight]))

\* timeline.push({year, probability, signals, riskLevel})
EntryOf(year, signals) ==
  Const(YearProbability(signals),
        LAMBDA probability :
          [year |-> year,
           probability |-> Round(RMul(probability, Num(100))),
           signals |-> signals,
           riskLevel |-> RiskLevel(probability)])

\* the indicators with a value in yd, in the order of RECESSION_INDICATORS
PresentIn(yd) == SortInts(DOMAIN yd)

\* the timeline entry of one year, from its data and the data of the year before
TimelineEntry(year, yd, prevYearData) ==
  LET present == PresentIn(yd)
  IN  Const([k \in 1..Len(present) |->
               SignalRecord(present[k], yd[present[k]],
                            signal(present[k], yd[present[k]],
                                   PrevVal(prevYearData, present[k])))],
            LAMBDA signals : EntryOf(year, signals))

Timeline(results, years) ==
  [k \in 1..Len(years) |->
     TimelineEntry(years[k], YearData(results, years[k]),
                   IF k = 1 THEN Null ELSE YearData(results, years[k - 1]))]

\* the alert of the latest assessment: its level, or null
Alert(probability, trend) ==
  IF probability >= 60 THEN [level |-> "critical"]
  ELSE IF probability >= 35 THEN [level |-> "warning"]
  ELSE IF trend > 15 THEN [level |-> "watch"]
  ELSE Null

\* the value as it is, outside the range too
Clamp_none(lo, v, hi) == v
\* Math.max(lo, Math.min(hi, v))
Clamp(lo, v, hi) == IF v < lo THEN lo ELSE IF v > hi THEN hi ELSE v

\* the fewest timeline entries with a recent trend (timeline.length >= 5)
RecentSpan == 5

\* timeline[n].probability - timeline[n - back].probability with at least
\* back + 1 entries, else 0
Change(timeline, back) ==
  IF Len(timeline) >= back + 1
  THEN timeline[Len(timeline)].probability - timeline[Len(timeline) - back].probability
  ELSE 0

\* what is returned for a timeline of three years or more
Assessment(countryCode, results, timeline) ==
  LET latest == timeline[Len(timeline)]
      trend == Change(timeline, 2)
      recentTrend == Change(timeline, RecentSpan - 1)
  IN  [country |-> countryCode,
       latestYear |-> latest.year,
       probability |-> latest.probability,
       riskLevel |-> latest.riskLevel,
       signals |-> latest.signals,
       alert |-> Alert(latest.probability, trend),
       timeline |-> timeline,
       trend |-> trend,
       projected12m |-> Clamp(0, Round(RAdd(Num(latest.probability),
                                            Norm(recentTrend, RecentSpan))), 100),
       indicatorsUsed |-> Cardinality({i \in Indicators : Len(results[i].data) > 0}),
       totalIndicators |-> Len(RECESSION_INDICATORS)]

\* PG.predictRecession(countryCode) once the six fetches have settled with
\* `results`
predictRecession(countryCode, results) ==
  LET years == TimelineYears(results)
  IN  IF Len(years) < 3
      THEN [error |-> "Insufficient data", probability |-> Null,
            signals |-> << >>, timeline |-> << >>]
      ELSE Const(Timeline(results, years),
                 LAMBDA timeline : Assessment(countryCode, results, timeline))

----------------------------------------------------------------------------
(* Calls of the recession scorer.  Each of the six fetches settles with the
   series of its indicator or fails; a series that was fetched has had its
   gaps interpolated, so it holds a null only when it holds nothing else. *)

MaxYears == 3       \* the years 1..MaxYears of the fetched series
MaxRequests == 1    \* no call is started once PG.metrics.requests has got here

\* error: null of a fetch that succeeded
NoError == "null"
Failed == [data |-> << >>, error |-> "HTTP 500"]
\* marks a year for which the series has no row
NoRow == <<0, 0, 0>>
\* the rows of the years that have one
Fetched(values) ==
  [data |-> SelectSeq(SeriesOf(1, values), LAMBDA d : d.value # NoRow), error |-> NoError]
Steady(v) == Fetched([y \in 1..MaxYears |-> v])

IndicatorOutcomes ==
  <<{Failed, Steady(Num(-1)), Steady(Num(2))},
    {Fetched(q) : q \in SeqsOf({Zero, Num(3)}, MaxYears)},
    {Steady(Num(3)), Steady(Num(16))},
    {Failed, Steady(Num(30))},
    {Fetched(q) : q \in SeqsOf({NoRow, Zero, Num(-3)}, MaxYears)} \cup {Steady(Null)},
    {Steady(Num(110))}>>

\* what the six fetches settle with: every indicator on its own, or all but
\* FDI failing
FetchOutcomes(gdp, unemployment, inflation, exports, fdi, debt, alone) ==
  IF alone THEN [i \in Indicators |-> IF i = 5 THEN fdi ELSE Failed]
  ELSE <<gdp, unemployment, inflation, exports, fdi, debt>>

\* the null values of a series
NullCount(s) == Len(SelectSeq(s, LAMBDA d : d.value = Null))

RECURSIVE SumInts(_)
SumInts(s) == IF s = << >> THEN 0 ELSE s[1] + SumInts(Tail(s))

InitRecession ==
  /\ series = << >>
  /\ call = [op |-> "none"]
  /\ ret = Null
  /\ metrics = [requests |-> 0, nulls |-> 0, models |-> 0, charts |-> 0]
  /\ local = Null
  /\ browser = FreshBrowser

\* a series of n years at the value v
Level(v, n) == Fetched([y \in 1..n |-> v])
\* a series of n years at the value v that ends with one year at w
Turn(v, w, n) == Fetched([y \in 1..n |-> IF y = n THEN w ELSE v])

\* fetched data chosen for the alert and the projection:
\*   a probability of 0.346 that is reported as 35 percent;
\*   a rise of 30 points to 30 percent over three years;
\*   a rise of 30 points, a fall of 30 points to 0 and a rise of 100 points
\*   to 100 percent over RecentSpan years
Scenarios ==
  {<<Steady(<<1, 2>>), Failed, Steady(Num(-1)), Failed, Steady(Zero), Steady(Num(50))>>,
   <<Turn(Num(2), Num(-1), MaxYears), Steady(Num(3)), Steady(Num(3)), Steady(Num(30)),
     Steady(Zero), Steady(Num(50))>>,
   <<Turn(Num(2), Num(-1), RecentSpan), Level(Num(3), RecentSpan), Level(Num(16), RecentSpan),
     Level(Num(30), RecentSpan), Level(Zero, RecentSpan), Level(Num(110), RecentSpan)>>,
   <<Turn(Num(-1), Num(2), RecentSpan), Level(Num(3), RecentSpan), Level(Num(3), RecentSpan),
     Level(Num(30), RecentSpan), Level(Zero, RecentSpan), Level(Num(50), RecentSpan)>>,
   <<Turn(Num(2), Num(-1), RecentSpan), Failed, Failed, Failed, Failed, Failed>>}

\* the six fetches have settled with `results`: with a warm cache the series
\* come from the cache and only the failing fetches go to the network
Settled(results) ==
  LET r == predictRecession("GB", results)
  IN  \E warm \in BOOLEAN :
        LET network == {i \in Indicators : ~warm \/ results[i].error # NoError}
            order == SortInts(network)
            nulls == SumInts([k \in 1..Len(order) |->
                                NullCount(results[order[k]].data)])
        IN  /\ call' = [op |-> "predictRecession", results |-> results,
                        warm |-> warm]
            /\ ret' = r
            /\ metrics' = [metrics EXCEPT !.requests = @ + Cardinality(network),
                                          !.nulls = @ + nulls]
            /\ UNCHANGED <<browser, series, local>>

\* PG.predictRecession(countryCode)
CallPredictRecession ==
  /\ Idle
  /\ metrics.requests < MaxRequests
  /\ \/ \E gdp \in IndicatorOutcomes[1], unemployment \in IndicatorOutcomes[2],
           inflation \in IndicatorOutcomes[3], exports \in IndicatorOutcomes[4],
           fdi \in IndicatorOutcomes[5], debt \in IndicatorOutcomes[6],
           alone \in BOOLEAN :
          /\ alone => gdp = Failed /\ exports = Failed
          /\ Settled(FetchOutcomes(gdp, unemployment, inflation, exports, fdi, debt, alone))
     \/ \E results \in Scenarios : Settled(results)

NextRecession == CallPredictRecession \/ Return

SpecRecession == InitRecession /\ [][NextRecession]_vars

----------------------------------------------------------------------------
(* Properties of the recession scorer *)

\* the value indicator i has at year y, null if it has none
ValueAt(results, i, y) ==
  IF y \in ValidYears(results[i].data) THEN LastAt(ValidPoints(results[i].data), y) ELSE Null

\* C10: for each indicator with data at a timeline year, the signal is the
\* signal function applied to that year's value and to the indicator's value
\* at the preceding timeline year whenever it has one there, 0 included; the
\* prior value is null only without such a value or at the first year.
C10_PriorValuePassedToSignal ==
  (call.op = "predictRecession") =>
    \A k \in 1..Len(ret.timeline) : \A i \in Indicators :
      LET entry == ret.timeline[k]
          v == ValueAt(call.results, i, entry.year)
          prior == IF k = 1 THEN Null ELSE ValueAt(call.results, i, ret.timeline[k - 1].year)
      IN  v # Null =>
            \E j \in 1..Len(entry.signals) :
              /\ entry.signals[j].name = RECESSION_INDICATORS[i].name
              /\ entry.signals[j].value = v
              /\ entry.signals[j].signal = signal(i, v, prior)

\* a call has returned a timeline
RecessionDone == call.op = "predictRecession" /\ ret.timeline # << >>

\* the probability of the latest year before it is reported as a percentage
LatestProbability == YearProbability(ret.signals)

AlertLevel(alert) == IF alert = Null THEN "none" ELSE alert.level

\* the alert the thresholds 0.6, 0.35 and trend > 15 points give a probability
Classified(p, trend) ==
  IF RGe(p, <<3, 5>>) THEN "critical"
  ELSE IF RGe(p, <<7, 20>>) THEN "warning"
  ELSE IF trend > 15 THEN "watch"
  ELSE "none"

\* C11: the alert classifies the probability that determines riskLevel: it is
\* critical exactly when the latest probability is >= 0.6 (riskLevel high),
\* warning exactly when it is >= 0.35 and < 0.6 (riskLevel elevated), watch
\* only below 0.35 with a trend above 15 points, and absent otherwise.
C11_AlertClassifiesProbability ==
  RecessionDone =>
    /\ AlertLevel(ret.alert) = Classified(LatestProbability, ret.trend)
    /\ (AlertLevel(ret.alert) = "critical" <=> ret.riskLevel = "high")
    /\ (AlertLevel(ret.alert) = "warning" <=> ret.riskLevel = "elevated")

\* the indicators with a finite value at year y in the fetched data
PresentAt(results, y) == {i \in Indicators : ValueAt(results, i, y) # Null}

\* the sum of the weights of a set of indicators
WeightOf(present) ==
  SumSeq([k \in 1..Cardinality(present) |-> RECESSION_INDICATORS[SortInts(present)[k]].weight])

\* min(1, sum(signal * weight) / sum(weight)) of an entry, as a percentage
WeightedMean(entry, present) ==
  LET composite == SumSeq([j \in 1..Len(entry.signals) |->
                             RMul(entry.signals[j].signal, entry.signals[j].weight)])
      ratio == RDiv(composite, WeightOf(present))
  IN  Round(RMul(IF RLt(One, ratio) THEN One ELSE ratio, Num(100)))

\* C12: at every year of the timeline the probability is min(1, sum(signal *
\* weight) / sum(weight of the indicators present that year)) as a percentage,
\* 0 when no indicator is present, and every timeline probability and
\* projected12m lie in 0..100.
C12_ProbabilityIsWeightedMean ==
  (call.op = "predictRecession") =>
    /\ \A k \in 1..Len(ret.timeline) :
         LET entry == ret.timeline[k]
             present == PresentAt(call.results, entry.year)
         IN  /\ Len(entry.signals) = Cardinality(present)
             /\ entry.probability = IF present = {} THEN 0 ELSE WeightedMean(entry, present)
             /\ entry.probability \in 0..100
    /\ ret.timeline # << >> => ret.projected12m \in 0..100

\* a timeline long enough for a recent trend, whose projection differs from
\* a latest probability strictly between 0 and 100
C12_Witness ==
  /\ RecessionDone
  /\ Len(ret.timeline) >= RecentSpan
  /\ ret.probability \in 1..99
  /\ ret.projected12m # ret.probability

----------------------------------------------------------------------------
(* The fan-out of predictRecession.  The six fetches are started together and
   settle one at a time in any order; Promise.all hands their results over
   once every one has settled.  A fetch runs on a cold cache.  local.inOrder
   records whether the fetches have settled in the order they were started. *)

\* the promise fetchWorldBank returns for a fetch that ends as `outcome`
Raw(outcome) ==
  IF outcome.error = NoError THEN [status |-> "fulfilled", value |-> outcome.data]
  ELSE [status |-> "rejected", reason |-> outcome.error]

\* without the catch: a rejection is passed on
Caught_rethrow(promise) ==
  IF promise.status = "fulfilled" THEN [data |-> promise.value, error |-> NoError]
  ELSE promise
\* .then(data => ({data, error: null})).catch(err => ({data: [], error: err.message}))
Caught(promise) ==
  IF promise.status = "fulfilled" THEN [data |-> promise.value, error |-> NoError]
  ELSE [data |-> << >>, error |-> promise.reason]

Pending == [status |-> "pending"]
IsRejected(r) == "status" \in DOMAIN r /\ r.status = "rejected"

\* the value takes the first place that is still pending
Gather_arrival(results, i, v) ==
  LET free == {k \in 1..Len(results) : results[k] = Pending}
  IN  [results EXCEPT ![CHOOSE k \in free : \A m \in free : k <= m] = v]
\* Promise.all: the value of promise i takes place i
Gather(results, i, v) == [results EXCEPT ![i] = v]

\* what each fetch can end as: a failure, or the data of the indicator, which
\* for FDI and debt can cover one year less and for FDI can be all null
FanOutcomes ==
  <<{Failed, Turn(Num(2), Num(-1), MaxYears)},
    {Failed, Steady(Num(3))},
    {Failed, Steady(Num(16))},
    {Failed, Steady(Num(30))},
    {Failed, Level(Num(-3), MaxYears - 1), Steady(Null)},
    {Failed, Steady(Num(110)), Level(Num(110), MaxYears - 1)}>>

InitFanOut ==
  /\ series = << >>
  /\ call = [op |-> "none"]
  /\ ret = Null
  /\ metrics = [requests |-> 0, nulls |-> 0, models |-> 0, charts |-> 0]
  /\ local = Null
  /\ browser = FreshBrowser

\* PG.predictRecession(countryCode) up to await Promise.all(fetchPromises)
FanOutBegin ==
  /\ Idle
  /\ metrics.requests < MaxRequests
  /\ \E gdp \in FanOutcomes[1], unemployment \in FanOutcomes[2],
        inflation \in FanOutcomes[3], exports \in FanOutcomes[4],
        fdi \in FanOutcomes[5], debt \in FanOutcomes[6] :
       call' = [op |-> "predictRecession",
                results |-> <<gdp, unemployment, inflation, exports, fdi, debt>>,
                warm |-> FALSE]
  /\ ret' = Null
  /\ local' = [pc |-> "fetching", settled |-> {}, inOrder |-> TRUE,
               results |-> [i \in Indicators |-> Pending]]
  /\ UNCHANGED <<browser, series, metrics>>

\* the fetch of one indicator settles
FetchSettle ==
  /\ local # Null
  /\ local.pc = "fetching"
  /\ \E i \in Indicators \ local.settled :
       /\ local' = [local EXCEPT
                      !.settled = @ \cup {i},
                      !.inOrder = @ /\ \A j \in local.settled : j < i,
                      !.results = Gather(@, i, Caught(Raw(call.results[i])))]
       /\ metrics' = [metrics EXCEPT                    \* PG.metrics.requests++
                        !.requests = @ + 1,
                        !.nulls = @ + NullCount(call.results[i].data)]
  /\ UNCHANGED <<browser, series, call, ret>>

\* every fetch has settled: the rest of predictRecession
AwaitAll ==
  /\ local # Null
  /\ local.pc = "fetching"
  /\ local.settled = Indicators
  /\ ret' = IF \E i \in Indicators : IsRejected(local.results[i])
            THEN [rejected |-> TRUE]
            ELSE predictRecession("GB", local.results)
  /\ local' = [local EXCEPT !.pc = "done"]
  /\ UNCHANGED <<browser, series, call, metrics>>

NextFanOut == FanOutBegin \/ FetchSettle \/ AwaitAll \/ Return

SpecFanOut == InitFanOut /\ [][NextFanOut]_vars

----------------------------------------------------------------------------
(* Properties of the fan-out *)

FanOutDone ==
  /\ call.op = "predictRecession"
  /\ IF local = Null THEN FALSE ELSE local.pc = "done"

\* C13: whatever the order in which the six fetches complete, the result (and
\* with it the timeline: years, probabilities, signals, risk levels) is the
\* one the data of each named indicator gives.
C13_TimelineIndependentOfOrder ==
  FanOutDone =>
    /\ local.results = call.results
    /\ ret = predictRecession("GB", call.results)

\* a timeline has been built from fetches that did not settle in the order
\* they were started
C13_Witness ==
  /\ FanOutDone
  /\ ~local.inOrder
  /\ "timeline" \in DOMAIN ret
  /\ Len(ret.timeline) >= 3

\* the indicators whose fetch did not fail
Loaded(results) == {i \in Indicators : results[i].error = NoError}

\* the years at which some loaded indicator has a finite value
FiniteYears(results) == UNION {ValidYears(results[i].data) : i \in Loaded(results)}

Resolved == "rejected" \notin DOMAIN ret
\* the whole-result outcome {error: 'Insufficient data', probability: null, ..}
Insufficient ==
  /\ "error" \in DOMAIN ret
  /\ ret.error = "Insufficient data"
  /\ ret.probability = Null
  /\ ret.timeline = << >>

\* C14: whichever of the six fetches fail, predictRecession resolves and
\* builds the timeline from the indicators that did load; the result is
\* 'Insufficient data' only when fewer than 3 distinct years carry a finite
\* value.
C14_FailedFetchesAreTolerated ==
  FanOutDone =>
    /\ Resolved
    /\ Insufficient <=> Cardinality(FiniteYears(call.results)) < 3
    /\ ~Insufficient =>
         /\ {ret.timeline[k].year : k \in 1..Len(ret.timeline)} = FiniteYears(call.results)
         /\ \A k \in 1..Len(ret.timeline) :
              {ret.timeline[k].signals[j].name : j \in 1..Len(ret.timeline[k].signals)}
                = {RECESSION_INDICATORS[i].name :
                     i \in {l \in Loaded(call.results) :
                              ret.timeline[k].year \in ValidYears(call.results[l].data)}}

\* a timeline has been built although some of the fetches failed
C14_Witness ==
  /\ FanOutDone
  /\ Loaded(call.results) # Indicators
  /\ Resolved
  /\ ~Insufficient

----------------------------------------------------------------------------
(* pipeline.js: normalise and interpolate.  A row of a World Bank response is
   [date, value]: the date is the year it parses to, or NoDate when the row
   has none; the value is a number, null, or Undefined when the row has none. *)

NoDate == 0
Undefined == <<0>>
Row(date, value) == [date |-> date, value |-> value]

RECURSIVE InsertByYear(_, _)
InsertByYear(d, s) ==
  IF s = << >> THEN <<d>>
  ELSE IF d.year < s[1].year THEN <<d>> \o s
  ELSE <<s[1]>> \o InsertByYear(d, Tail(s))

RECURSIVE SortByYear(_)
\* .sort((a, b) => a.year - b.year): points of one year keep their order
SortByYear(s) ==
  IF s = << >> THEN << >>
  ELSE InsertByYear(s[Len(s)], SortByYear(SubSeq(s, 1, Len(s) - 1)))

\* the series of normalise before it is interpolated
Normalised(raw) ==
  LET kept == SelectSeq(raw, LAMBDA d : d.date # NoDate /\ d.value # Undefined)
  IN  SortByYear([k \in 1..Len(kept) |-> Point(kept[k].date, kept[k].value)])

\* the nearest index before i with a value, 0 without one
PrevValid(arr, i) ==
  LET J == {j \in 1..(i - 1) : arr[j].value # Null}
  IN  IF J = {} THEN 0 ELSE CHOOSE j \in J : \A m \in J : m <= j

\* the nearest index after i with a value, 0 without one
NextValid(arr, i) ==
  LET J == {j \in (i + 1)..Len(arr) : arr[j].value # Null}
  IN  IF J = {} THEN 0 ELSE CHOOSE j \in J : \A m \in J : j <= m

\* arr[prev].value + diff * ((arr[i].year - arr[prev].year) / span)
OnLine_byIndex(arr, prev, i, next) ==
  RAdd(arr[prev].value,
       RMul(RSub(arr[next].value, arr[prev].value), RDiv(Num(i - prev), Num(next - prev))))
OnLine(arr, prev, i, next) ==
  RAdd(arr[prev].value,
       RMul(RSub(arr[next].value, arr[prev].value),
            RDiv(Num(arr[i].year - arr[prev].year),
                 Num(arr[next].year - arr[prev].year))))

\* one pass of the loop of interpolate
FillAt(arr, i) ==
  LET prev == PrevValid(arr, i)
      next == NextValid(arr, i)
  IN  IF arr[i].value # Null THEN arr
      ELSE IF prev # 0 /\ next # 0 THEN [arr EXCEPT ![i].value = OnLine(arr, prev, i, next)]
      ELSE IF prev # 0 THEN [arr EXCEPT ![i].value = arr[prev].value]
      ELSE IF next # 0 THEN [arr EXCEPT ![i].value = arr[next].value]
      ELSE arr

RECURSIVE FillFrom(_, _)
FillFrom(arr, i) == IF i > Len(arr) THEN arr ELSE FillFrom(FillAt(arr, i), i + 1)

\* PG.interpolate(series)
interpolate(s) == FillFrom(s, 1)

\* PG.normalise(raw, indicatorCode) of an array
normalise(raw) == interpolate(Normalised(raw))

----------------------------------------------------------------------------
(* pipeline.js: the World Bank fetch of one key.  browser.cache is the cache
   record of the key, [data, expires], or null; time is counted in units of
   3 hours. *)

\* 6 h
CACHE_TTL == 2

\* the record is there and Date.now() > rec.expires does not hold
Fresh(entry, now) == IF entry = Null THEN FALSE ELSE ~(now > entry.expires)

\* the record of the key after cacheGet: an expired one is deleted
AfterCacheGet(entry, now) == IF Fresh(entry, now) THEN entry ELSE Null

Fulfilled(value) == [status |-> "fulfilled", value |-> value]
Rejected(reason) == [status |-> "rejected", reason |-> reason]

\* what the network answers: the rows of all pages, no array, or no answer
\* after the retries
Answer(rows) == [kind |-> "rows", rows |-> rows]
NoArray == [kind |-> "noArray", rows |-> << >>]
NoAnswer == [kind |-> "failed", rows |-> << >>]

\* PG.fetchWorldBank past a cache miss, on line
Fetch(response, now) ==
  IF response.kind = "failed" THEN Rejected("HTTP 500")
  ELSE IF response.kind = "noArray" THEN Rejected("Empty dataset")
  ELSE Fulfilled(normalise(response.rows))

----------------------------------------------------------------------------
(* Calls of the World Bank fetch *)

MaxClock == 3      \* the clock stops here

GenRows ==
  {<< >>,
   <<Row(1, One)>>,
   <<Row(2, Num(3)), Row(1, Null), Row(3, Undefined), Row(NoDate, One)>>,
   <<Row(1, Zero), Row(2, Null), Row(3, Num(2))>>}

Responses == {Answer(rows) : rows \in GenRows} \cup {NoArray, NoAnswer}

\* the records an earlier session can have left in the cache
StoredEntries ==
  {[data |-> normalise(rows), expires |-> e] : rows \in GenRows, e \in 0..CACHE_TTL}

InitFetch ==
  /\ series = << >>
  /\ call = [op |-> "none"]
  /\ ret = Null
  /\ metrics = [requests |-> 0, nulls |-> 0, models |-> 0, charts |-> 0]
  /\ local = Null
  /\ browser \in {[cache |-> c, now |-> 0, online |-> o] :
                    c \in {Null} \cup StoredEntries, o \in BOOLEAN}

\* PG.fetchWorldBank(countryCode, indicatorCode, fromYear, toYear)
CallFetchWorldBank ==
  /\ Idle
  /\ metrics.requests < MaxRequests
  /\ call' = [op |-> "fetchWorldBank", entry |-> browser.cache,
              now |-> browser.now, online |-> browser.online]
  /\ IF Fresh(browser.cache, browser.now)
     THEN /\ ret' = Fulfilled(browser.cache.data)                \* cache hit
          /\ UNCHANGED <<metrics, browser>>
     ELSE IF ~browser.online
     THEN /\ ret' = Rejected("No network connection")
          /\ metrics' = [metrics EXCEPT !.requests = @ + 1]
          /\ browser' = [browser EXCEPT !.cache = AfterCacheGet(@, browser.now)]
     ELSE \E response \in Responses :
            /\ ret' = Fetch(response, browser.now)
            /\ metrics' = [metrics EXCEPT
                             !.requests = @ + 1,
                             !.nulls = @ + NullCount(Normalised(response.rows))]
            /\ browser' = [browser EXCEPT
                             !.cache = IF response.kind = "rows"
                                       THEN [data |-> normalise(response.rows),
                                             expires |-> browser.now + CACHE_TTL]
                                       ELSE AfterCacheGet(@, browser.now)]
  /\ UNCHANGED <<series, local>>

\* time passes
Tick ==
  /\ browser.now < MaxClock
  /\ browser' = [browser EXCEPT !.now = @ + 1]
  /\ UNCHANGED <<series, call, ret, metrics, local>>

\* the 'online' and 'offline' events of the window
ConnectionChange ==
  /\ browser' = [browser EXCEPT !.online = ~@]
  /\ UNCHANGED <<series, call, ret, metrics, local>>

NextFetch == CallFetchWorldBank \/ Tick \/ ConnectionChange \/ Return

SpecFetch == InitFetch /\ [][NextFetch]_vars

----------------------------------------------------------------------------
(* Properties of the World Bank fetch *)

FetchDone == call.op = "fetchWorldBank"

\* the call found a record of the key that had expired
FoundExpired == IF call.entry = Null THEN FALSE ELSE call.now > call.entry.expires

\* C15: off line, with a record of the key in the cache whose TTL has
\* expired, fetchWorldBank serves the data of that record instead of failing.
C15_StaleDataServedOffline ==
  (FetchDone /\ ~call.online /\ FoundExpired) => ret = Fulfilled(call.entry.data)

----------------------------------------------------------------------------
(* Properties of detectAnomalies over methods and inputs *)

DetectDone == call.op = "detectAnomalies"

\* the points of a list of results, without the fields added to an anomaly
PointsOf(list) == {Point(list[i].year, list[i].value) : i \in 1..Len(list)}
FlaggedBy(method) == PointsOf(detectAnomalies(series, method, call.threshold).anomalies)

\* C16: on the same series and threshold, the points flagged with method
\* 'both' are exactly the points flagged with 'zscore' together with the points
\* flagged with 'iqr' (so 'both' contains each of the two sets).
C16_BothIsUnionOfMethods ==
  (DetectDone /\ call.method = "both")
    => /\ FlaggedBy("zscore") \subseteq PointsOf(ret.anomalies)
       /\ FlaggedBy("iqr") \subseteq PointsOf(ret.anomalies)
       /\ PointsOf(ret.anomalies) = FlaggedBy("zscore") \cup FlaggedBy("iqr")

\* a 'both' call that flags a point which 'zscore' alone does not flag
C16_Witness ==
  /\ DetectDone /\ call.method = "both"
  /\ PointsOf(ret.anomalies) # {}
  /\ FlaggedBy("zscore") # PointsOf(ret.anomalies)

\* the indexes of the input points with a non-null, finite value
ValidIndexes == {i \in 1..Len(series) : series[i].value # Null /\ series[i].value[2] > 0}
\* the input points at the indexes of I, in input order
InputAt(I) == [k \in 1..Cardinality(I) |-> series[SortInts(I)[k]]]
BareAnomalies == [i \in 1..Len(ret.anomalies) |->
                    Point(ret.anomalies[i].year, ret.anomalies[i].value)]

\* C17: detectAnomalies returns a partition of the valid input points: the
\* valid indexes split into two disjoint sets whose points, in input order, are
\* anomalies and normal; with fewer than 4 valid points anomalies is empty and
\* normal holds all valid points.
C17_PartitionOfValidPoints ==
  DetectDone
    => /\ \E A \in SUBSET ValidIndexes :
            /\ BareAnomalies = InputAt(A)
            /\ ret.normal = InputAt(ValidIndexes \ A)
       /\ Cardinality(ValidIndexes) < 4
            => ret.anomalies = << >> /\ ret.normal = InputAt(ValidIndexes)

\* a call on a series with a null point that puts points on both sides
C17_Witness ==
  /\ DetectDone
  /\ Cardinality(ValidIndexes) < Len(series)
  /\ ret.anomalies # << >> /\ ret.normal # << >>

----------------------------------------------------------------------------
(* Properties of the forecast of holtwinters *)

HWDone == call.op = "holtwinters"

\* the year of the last input point with a non-null, finite value
LastObservedYear == series[CHOOSE i \in ValidIndexes : \A j \in ValidIndexes : j <= i].year
\* the level and trend after the last observation
FinalFit ==
  LET data == Values(InputAt(ValidIndexes))
  IN  HWLoop(data, 1, data[1], RSub(data[2], data[1]), call.opt.alpha, call.opt.beta)
\* the sample variance of the residuals
ErrorVariance ==
  LET e == ret.errors
      mean == RDiv(SumSeq(e), Num(Len(e)))
  IN  RDiv(SumSeq([i \in 1..Len(e) |-> RSq(RSub(e[i], mean))]), Num(Len(e) - 1))
\* the z of the confidence level of the call
TableZ ==
  IF call.opt.ci = 99 THEN Norm(2576, 1000)
  ELSE IF call.opt.ci = 90 THEN Norm(1645, 1000)
  ELSE Norm(196, 100)
\* forecast + sign * z * se at step h, se = std * sqrt(1 + 0.1 * horizon)
BandAt(h, sign) ==
  [mid |-> ret.forecast[h].value, sign |-> sign, z |-> TableZ,
   std |-> Sqrt(ErrorVariance), widen |-> Sqrt(RAdd(One, Norm(call.opt.horizon, 10)))]

\* the square of the half-width z * std * widen of x
WidthSquared(x) ==
  RMul(RSq(x.z), RMul(<<x.std[1], x.std[2]>>, <<x.widen[1], x.widen[2]>>))
\* x = mid + sign * width compared with the number b, for width >= 0
OffsetGe(x, b) ==
  LET d == RSub(b, x.mid)
  IN  IF x.sign = 1 THEN RLe(d, Zero) \/ RLe(RSq(d), WidthSquared(x))
      ELSE RLe(d, Zero) /\ RGe(RSq(d), WidthSquared(x))
OffsetLe(x, b) ==
  LET d == RSub(b, x.mid)
  IN  IF x.sign = 1 THEN RGe(d, Zero) /\ RLe(WidthSquared(x), RSq(d))
      ELSE RGe(d, Zero) \/ RLe(RSq(d), WidthSquared(x))

\* C18: holtwinters returns null exactly when the series has fewer than 3
\* valid points; otherwise forecast, upperCI and lowerCI have `horizon` points
\* each, of years lastObservedYear + 1 .. lastObservedYear + horizon; the
\* forecast at step h is finalLevel + h * finalTrend; and the band is
\* forecast -/+ z * se at every step, with lowerCI <= forecast <= upperCI and
\* z = 1.96 for a confidence level other than 90 and 99.
C18_ForecastAndBand ==
  HWDone
    => /\ (ret = Null) <=> (Cardinality(ValidIndexes) < 3)
       /\ ret # Null
            => /\ Len(ret.forecast) = call.opt.horizon
               /\ Len(ret.upperCI) = call.opt.horizon
               /\ Len(ret.lowerCI) = call.opt.horizon
               /\ \A h \in 1..call.opt.horizon :
                    /\ ret.forecast[h].year = LastObservedYear + h
                    /\ ret.upperCI[h].year = LastObservedYear + h
                    /\ ret.lowerCI[h].year = LastObservedYear + h
                    /\ ret.forecast[h].value
                         = RAdd(FinalFit.level, RMul(Num(h), FinalFit.trend))
                    /\ OffsetLe(ret.lowerCI[h].value, ret.forecast[h].value)
                    /\ OffsetGe(ret.upperCI[h].value, ret.forecast[h].value)
                    /\ ret.upperCI[h].value = BandAt(h, 1)
                    /\ ret.lowerCI[h].value = BandAt(h, -1)

\* a forecast of two steps, at a confidence level outside the table, from a
\* series that ends with a null point, with a band of positive width
C18_Witness ==
  /\ HWDone /\ ret # Null
  /\ call.opt.horizon = 2 /\ call.opt.ci = 80
  /\ series[Len(series)].value = Null
  /\ ret.upperCI[2].value.std # Sqrt(Zero)
  /\ ret.forecast[2].value # ret.forecast[1].value

----------------------------------------------------------------------------
(* Calls of the matrices.  `series` is the list of datasets.  causalMatrix
   runs in steps, one per row of the matrix; local.tests lists the pairs
   <<cause, effect>> grangerTest has been run on.  The p-value is modelled
   for six aligned years at maxLag 1 (see the calls of the Granger test), so
   the datasets have six years and causalMatrix is called with maxLag 1. *)

MaxDatasets == 3   \* most datasets of a generated list

\* six years of values, and two series with few years
PoolData ==
  {EdgeData.x, EdgeData.y,
   SeriesOf(1, <<Num(3), One, One, Zero, One, One>>),
   SeriesOf(1, <<Num(3), One, One, One, Zero, Zero>>),
   SeriesOf(1, <<One, Null, Null, Zero, Null, Num(3)>>),
   SeriesOf(5, <<One, Num(3)>>)}

\* six series with nine causal ordered pairs and six correlations >= 0.45
CrowdData ==
  <<SeriesOf(1, <<Zero, One, Num(3), Zero, Zero, Zero>>),
    SeriesOf(1, <<Zero, One, Zero, Num(3), Zero, Zero>>),
    SeriesOf(1, <<One, One, Zero, Num(3), Num(3), Zero>>),
    SeriesOf(1, <<Num(3), Zero, Zero, One, Zero, Num(3)>>),
    SeriesOf(1, <<Num(3), One, Num(3), Zero, One, Zero>>),
    SeriesOf(1, <<Num(3), Zero, Zero, One, Zero, Zero>>)>>

\* the datasets of a list of series, labelled by position
Labelled(list) == [i \in 1..Len(list) |-> [label |-> i, data |-> list[i]]]

MatrixInputs ==
  {Labelled(q) : q \in UNION {SeqsOf(PoolData, n) : n \in 0..MaxDatasets} \cup {CrowdData}}

InitMatrix ==
  /\ series \in MatrixInputs
  /\ call = [op |-> "none"]
  /\ ret = Null
  /\ metrics = [requests |-> 0, nulls |-> 0, models |-> 0, charts |-> 0]
  /\ local = Null
  /\ browser = FreshBrowser

CallPearsonMatrix ==
  /\ Idle
  /\ call' = [op |-> "pearsonMatrix"]
  /\ ret' = pearsonMatrix(series)
  /\ UNCHANGED <<browser, series, metrics, local>>

\* PG.causalMatrix(datasets, maxLag) up to its loop
CausalBegin ==
  /\ Idle
  /\ call' = [op |-> "causalMatrix", maxLag |-> 1]
  /\ ret' = Null
  /\ local' = [pc |-> "loop", i |-> 1,
               matrix |-> [i \in 1..Len(series) |-> [j \in 1..Len(series) |-> Null]],
               causalPairs |-> << >>, tests |-> << >>]
  /\ UNCHANGED <<browser, series, metrics>>

\* the tests of row i, series i as the cause
RowResults_reversed(i) ==
  [j \in 1..Len(series) |->
     IF j = i THEN Null ELSE grangerTest(series[j].data, series[i].data, call.maxLag)]
RowResults(i) ==
  [j \in 1..Len(series) |->
     IF j = i THEN Null ELSE grangerTest(series[i].data, series[j].data, call.maxLag)]

\* the loop's state after row i, from the results of its tests
AfterRow(i, results) ==
  LET others == SelectSeq([j \in 1..Len(series) |-> j], LAMBDA j : j # i)
      found == SelectSeq(others, LAMBDA j : results[j] # Null /\ results[j].causal)
  IN  [local EXCEPT
         !.i = i + 1,
         !.matrix[i] = [j \in 1..Len(series) |->
                          IF j = i THEN SelfCell ELSE CellOf(results[j])],
         !.causalPairs = @ \o [n \in 1..Len(found) |->
                                [from |-> series[i].label,
                                 to |-> series[found[n]].label,
                                 fStat |-> results[found[n]].bestF,
                                 pValue |-> results[found[n]].bestP,
                                 lag |-> results[found[n]].bestLag]],
         !.tests = @ \o [n \in 1..Len(others) |-> <<i, others[n]>>]]

\* one pass of the outer loop: the cells of row i
CausalRow ==
  /\ local # Null
  /\ call.op = "causalMatrix"
  /\ local.pc = "loop"
  /\ local.i <= Len(series)
  /\ local' = Const(RowResults(local.i), LAMBDA results : AfterRow(local.i, results))
  /\ UNCHANGED <<browser, series, call, ret, metrics>>

\* the loop is over: sort the causal pairs, write the insights and return
CausalEnd ==
  /\ local # Null
  /\ call.op = "causalMatrix"
  /\ local.pc = "loop"
  /\ local.i > Len(series)
  /\ LET sorted == SortByPValue(local.causalPairs)
     IN  /\ ret' = [labels |-> [i \in 1..Len(series) |-> series[i].label],
                    matrix |-> local.matrix,
                    causalPairs |-> sorted,
                    insights |-> CausalInsights(sorted)]
         /\ local' = [local EXCEPT !.pc = "done", !.causalPairs = sorted]
  /\ UNCHANGED <<browser, series, call, metrics>>

NextMatrix == CallPearsonMatrix \/ CausalBegin \/ CausalRow \/ CausalEnd \/ Return

SpecMatrix == InitMatrix /\ [][NextMatrix]_vars

----------------------------------------------------------------------------
(* Properties of the matrices *)

PearsonMatrixDone == call.op = "pearsonMatrix"

\* the years at which both series have a non-null value
SharedYears(a, b) ==
  {a[i].year : i \in {n \in 1..Len(a) : a[n].value # Null}}
    \cap {b[i].year : i \in {n \in 1..Len(b) : b[n].value # Null}}

\* C19: pearsonMatrix over N datasets returns an N x N matrix with 1.0 on the
\* diagonal and matrix[i][j] = matrix[j][i]; an off-diagonal entry is null
\* exactly when the two series share fewer than 3 years with a non-null value
\* in both, and otherwise a number of [-1, 1]; the insights are at most 5, each
\* the entry of a pair with |r| >= 0.45, in order of non-increasing |r|.
C19_PearsonMatrixShape ==
  PearsonMatrixDone
    => LET N == Len(series)
       IN  /\ Len(ret.matrix) = N
           /\ \A i \in 1..N : Len(ret.matrix[i]) = N /\ ret.matrix[i][i] = One
           /\ \A i, j \in 1..N : ret.matrix[i][j] = ret.matrix[j][i]
           /\ \A i, j \in 1..N :
                i # j =>
                  /\ (ret.matrix[i][j] = Null)
                       <=> (Cardinality(SharedYears(series[i].data, series[j].data)) < 3)
                  /\ ret.matrix[i][j] # Null
                       => /\ IsNum(ret.matrix[i][j])
                          /\ RLe(Num(-1), ret.matrix[i][j])
                          /\ RLe(ret.matrix[i][j], One)
           /\ Len(ret.insights) <= 5
           /\ \A n \in 1..Len(ret.insights) :
                /\ RGe(RAbs(ret.insights[n].r), Norm(45, 100))
                /\ \E i, j \in 1..N :
                     /\ i < j
                     /\ ret.insights[n].first = ret.labels[i]
                     /\ ret.insights[n].second = ret.labels[j]
                     /\ ret.insights[n].r = ret.matrix[i][j]
           /\ \A n \in 1..(Len(ret.insights) - 1) :
                RGe(RAbs(ret.insights[n].r), RAbs(ret.insights[n + 1].r))

\* more than 5 pairs have |r| >= 0.45 and 5 are listed, not all of the same |r|
C19_Witness ==
  /\ PearsonMatrixDone
  /\ Cardinality({q \in (1..Len(series)) \X (1..Len(series)) :
                    q[1] < q[2] /\ Noted(ret.matrix[q[1]][q[2]])}) > 5
  /\ Len(ret.insights) = 5
  /\ ret.insights[1].r # ret.insights[5].r


CausalMatrixDone == call.op = "causalMatrix" /\ local.pc = "done"

\* the test of series i as the cause and series j as the effect
TestOf(i, j) == grangerTest(series[i].data, series[j].data, call.maxLag)

\* what C20 says of the tests, the cells and the list of insights, but for the
\* bound on the p-values listed
CausalMatrixShape ==
  LET N == Len(series)
  IN  /\ local.tests = OrderedPairs(N)
      /\ \A a, b \in 1..Len(local.tests) : a # b => local.tests[a] # local.tests[b]
      /\ \A i \in 1..N : ret.matrix[i][i] # Null /\ ~ret.matrix[i][i].causal
      /\ \A i, j \in 1..N :
           i # j => /\ (ret.matrix[i][j] = Null) <=> (TestOf(i, j) = Null)
                    /\ ret.matrix[i][j] = CellOf(TestOf(i, j))
      /\ Len(ret.insights) <= 8
      /\ \A n \in 1..(Len(ret.insights) - 1) :
           RLe(ret.insights[n].pValue, ret.insights[n + 1].pValue)
      /\ \A n \in 1..Len(ret.insights) :
           \E i, j \in 1..N :
             /\ i # j
             /\ ret.insights[n].from = ret.labels[i]
             /\ ret.insights[n].to = ret.labels[j]
             /\ ret.matrix[i][j] # Null
             /\ ret.matrix[i][j].causal
             /\ ret.matrix[i][j].pValue = ret.insights[n].pValue

\* C20 as stated: causalMatrix runs grangerTest once for every ordered pair
\* (i, j), i # j, series i the cause; the diagonal is non-causal; a cell is
\* null exactly when its test returned null; the insights are at most 8, in
\* order of non-decreasing p-value, each of a causal cell, and each with a
\* p-value below 0.05.
C20_InsightsBelowAlpha ==
  CausalMatrixDone
    => /\ CausalMatrixShape
       /\ \A n \in 1..Len(ret.insights) : RLt(ret.insights[n].pValue, Alpha)

\* C20 amended: the same, with every listed p-value at most 0.05: the p-value
\* listed is rounded to 4 decimals, and a test is causal when its p-value
\* before rounding is below 0.05, so a listed p-value of 0.05 can happen, in
\* the colour of neither bucket.
C20_InsightsAtMostAlpha ==
  CausalMatrixDone
    => /\ CausalMatrixShape
       /\ \A n \in 1..Len(ret.insights) :
            /\ RLe(ret.insights[n].pValue, Alpha)
            /\ ret.insights[n].color = "#F59E0B" <=> ret.insights[n].pValue = Alpha

\* more than 8 ordered pairs are causal and 8 are listed, of several p-values
C20_Witness ==
  /\ CausalMatrixDone
  /\ Len(local.causalPairs) > 8
  /\ Len(ret.insights) = 8
  /\ ret.insights[1].pValue # ret.insights[8].pValue
  /\ \E i, j \in 1..Len(series) : i # j /\ ret.matrix[i][j] = Null

----------------------------------------------------------------------------
(* The counters and the arguments across the engine calls *)

\* the engine functions that count nothing
PureOps ==
  {"calcStats", "calcCAGR", "calcVolatility", "calcChange", "pearson",
   "pearsonMatrix", "detectAnomalies", "grangerTest", "causalMatrix"}

\* a step that starts an engine call or is taken inside one
EngineStep ==
  /\ call'.op \in PureOps \cup {"holtwinters"}
  /\ Idle \/ call' = call

\* C25: each holtwinters call that returns a result adds exactly 1 to
\* metrics.models and one that returns null adds nothing; calcStats, calcCAGR,
\* calcVolatility, calcChange, pearson, pearsonMatrix, detectAnomalies,
\* grangerTest and causalMatrix change no counter of PG.metrics; and no call
\* changes the series it was given.
C25_OnlyHoltwintersCounts ==
  [][EngineStep =>
       /\ series' = series
       /\ ~Idle => call' = call
       /\ IF call'.op = "holtwinters"
          THEN metrics' = [metrics EXCEPT !.models = IF ret' = Null THEN @ ELSE @ + 1]
          ELSE metrics' = metrics]_vars

\* a second forecast has been counted, and one of the other calls made after
\* it has left the counter at 2
C25_Witness ==
  /\ call.op \in PureOps
  /\ metrics.models = 2
  /\ metrics.requests = 0 /\ metrics.nulls = 0 /\ metrics.charts = 0
  /\ ret # Null

----------------------------------------------------------------------------
(* Calls of the pipeline's pure steps.  `series` is the argument: a series for
   interpolate, the rows of a response for normalise. *)

\* strictly increasing years, unevenly spaced: 1, 2, 4, 7, 11, ..
YearAt(i) == 1 + (i * (i - 1)) \div 2

\* series of up to MaxLen points at those years, null values among them
SparseSeries ==
  {[i \in 1..Len(q) |-> Point(YearAt(i), q[i])] :
     q \in UNION {SeqsOf(GenValues, n) : n \in 0..MaxLen}}

MaxRows == 3       \* most rows of a generated response
MaxNulls == 3      \* cap of the PG.metrics.nulls counter

\* rows of a response over its pages: repeated dates, rows without a date or
\* without a value, in any order
RawRows == {Row(d, v) : d \in {NoDate, 1, 2}, v \in {Null, One, Undefined}}
RawInputs == UNION {SeqsOf(RawRows, n) : n \in 0..MaxRows}

InitPipeline ==
  /\ series \in SparseSeries \cup RawInputs
  /\ call = [op |-> "none"]
  /\ ret = Null
  /\ metrics = [requests |-> 0, nulls |-> 0, models |-> 0, charts |-> 0]
  /\ local = Null
  /\ browser = FreshBrowser

\* PG.interpolate(series): arr is a copy of the points, so the argument keeps
\* its values
CallInterpolate ==
  /\ Idle
  /\ series \in SparseSeries
  /\ call' = [op |-> "interpolate", input |-> series]
  /\ ret' = interpolate(series)
  /\ UNCHANGED <<browser, series, metrics, local>>

\* PG.normalise(raw, indicatorCode) of an array
CallNormalise ==
  /\ Idle
  /\ series \in RawInputs
  /\ metrics.nulls + NullCount(Normalised(series)) <= MaxNulls
  /\ call' = [op |-> "normalise", input |-> series]
  /\ ret' = normalise(series)
  /\ metrics' = [metrics EXCEPT !.nulls = @ + NullCount(Normalised(series))]
  /\ UNCHANGED <<browser, series, local>>

NextPipeline == CallInterpolate \/ CallNormalise \/ Return

SpecPipeline == InitPipeline /\ [][NextPipeline]_vars

----------------------------------------------------------------------------
(* Properties of the pipeline's pure steps *)

InterpolateDone == call.op = "interpolate"

\* the indexes of the argument with a non-null value, before and after i
Before(i) == {j \in 1..(i - 1) : series[j].value # Null}
After(i) == {j \in (i + 1)..Len(series) : series[j].value # Null}
Nearest(J, i) == CHOOSE j \in J : \A m \in J : Abs(m - i) >= Abs(j - i)

\* the value at year y on the straight line through the points p and q
LineAt(p, q, y) ==
  RAdd(p.value, RDiv(RMul(RSub(q.value, p.value), Num(y - p.year)), Num(q.year - p.year)))

\* what C21 says of the point i of the result
Interpolated(i) ==
  IF series[i].value # Null THEN series[i].value
  ELSE IF Before(i) # {} /\ After(i) # {}
       THEN LineAt(series[Nearest(Before(i), i)], series[Nearest(After(i), i)], series[i].year)
  ELSE IF Before(i) # {} THEN series[Nearest(Before(i), i)].value
  ELSE IF After(i) # {} THEN series[Nearest(After(i), i)].value
  ELSE Null

\* C21: interpolate returns a series of the same length and years; a non-null
\* value is kept, a null between two non-null points gets the value on the
\* straight line in year between its nearest non-null neighbours of the input,
\* a leading null the first non-null value, a trailing null the last; a null
\* is left only when the whole input is null; the argument is not modified.
C21_InterpolateFillsOnTheLine ==
  InterpolateDone
    => /\ Len(ret) = Len(series)
       /\ \A i \in 1..Len(series) :
            /\ ret[i].year = series[i].year
            /\ ret[i].value = Interpolated(i)
       /\ (\E i \in 1..Len(ret) : ret[i].value = Null)
            => \A i \in 1..Len(series) : series[i].value = Null
       /\ series = call.input

\* a gap of two nulls between unevenly spaced years is filled with two
\* different values, neither the value of a neighbour
C21_Witness ==
  /\ InterpolateDone
  /\ Len(series) = 4
  /\ series[1].value # Null /\ series[2].value = Null /\ series[3].value = Null
  /\ series[4].value # Null
  /\ ret[2].value # ret[3].value
  /\ ret[2].value # series[1].value /\ ret[3].value # series[4].value

NormaliseDone == call.op = "normalise"

\* C26: the series normalise produces is strictly increasing by year, so no
\* two of its points share a year.
C26_NormaliseStrictlyIncreasing ==
  NormaliseDone => \A i \in 1..(Len(ret) - 1) : ret[i].year < ret[i + 1].year

----------------------------------------------------------------------------
(* pipeline.js: fetchPage.  A call runs in steps: an attempt (fetch and
   res.json()) settles with a response or with an error; after an error the
   call waits on a timer and starts the next attempt, or rejects.
   local.outcomes lists the outcomes of the attempts made, local.delays the
   delays waited, in milliseconds. *)

MAX_RETRY == 3
RETRY_DELAY_MS == 1200

\* if (attempt < MAX_RETRY)
MayRetry(attempt) == attempt < MAX_RETRY
\* setTimeout(r, RETRY_DELAY_MS * attempt)
RetryDelay_flat(attempt) == RETRY_DELAY_MS
RetryDelay(attempt) == RETRY_DELAY_MS * attempt

\* what an attempt can end with: the JSON of a response, or an error (HTTP
\* status not ok, time-out, network error, unreadable body)
PageBodies == {<<1, 1>>, <<2, 1>>}
PageErrors == {"HTTP 500", "HTTP 429", "TimeoutError", "SyntaxError"}
Succeeded(body) == [ok |-> TRUE, body |-> body]
Errored(err) == [ok |-> FALSE, error |-> err]

InitRetry ==
  /\ series = << >>
  /\ call = [op |-> "none"]
  /\ ret = Null
  /\ metrics = [requests |-> 0, nulls |-> 0, models |-> 0, charts |-> 0]
  /\ local = Null
  /\ browser = FreshBrowser

\* fetchPage(url): the first attempt starts
FetchPageBegin ==
  /\ Idle
  /\ call' = [op |-> "fetchPage"]
  /\ ret' = Null
  /\ local' = [pc |-> "fetching", attempt |-> 1, outcomes |-> << >>, delays |-> << >>]
  /\ UNCHANGED <<browser, series, metrics>>

\* the attempt ends with a response: return await res.json()
AttemptSucceeds ==
  /\ local # Null
  /\ call.op = "fetchPage"
  /\ local.pc = "fetching"
  /\ \E body \in PageBodies :
       /\ ret' = Fulfilled(body)
       /\ local' = [local EXCEPT !.pc = "done", !.outcomes = Append(@, Succeeded(body))]
  /\ UNCHANGED <<browser, series, call, metrics>>

\* the attempt ends with an error: catch (err)
AttemptFails ==
  /\ local # Null
  /\ call.op = "fetchPage"
  /\ local.pc = "fetching"
  /\ \E err \in PageErrors :
       IF MayRetry(local.attempt)
       THEN /\ local' = [local EXCEPT !.pc = "waiting",
                                      !.outcomes = Append(@, Errored(err)),
                                      !.delays = Append(@, RetryDelay(local.attempt))]
            /\ ret' = ret
       ELSE /\ local' = [local EXCEPT !.pc = "done", !.outcomes = Append(@, Errored(err))]
            /\ ret' = Rejected(err)
  /\ UNCHANGED <<browser, series, call, metrics>>

\* the timer fires: return fetchPage(url, attempt + 1)
TimerFires ==
  /\ local # Null
  /\ call.op = "fetchPage"
  /\ local.pc = "waiting"
  /\ local' = [local EXCEPT !.pc = "fetching", !.attempt = @ + 1]
  /\ UNCHANGED <<browser, series, call, ret, metrics>>

NextRetry == FetchPageBegin \/ AttemptSucceeds \/ AttemptFails \/ TimerFires \/ Return

SpecRetry == InitRetry /\ [][NextRetry]_vars

\* every attempt settles (the fetch is aborted after 10 s) and every timer fires
SpecRetryFair ==
  /\ SpecRetry
  /\ WF_vars(AttemptSucceeds \/ AttemptFails)
  /\ WF_vars(TimerFires)

----------------------------------------------------------------------------
(* Properties of fetchPage *)

InFetchPage == call.op = "fetchPage"
FetchPageSettled == InFetchPage /\ local.pc = "done"

\* what C22 says of the attempts made so far
RetryDiscipline ==
  InFetchPage
    => LET made == Len(local.outcomes)
       IN  /\ made <= 3
           /\ local.attempt <= 3
           /\ \A n \in 1..made :
                local.outcomes[n].ok => /\ n = made
                                        /\ local.pc = "done"
                                        /\ ret = Fulfilled(local.outcomes[n].body)
           /\ Len(local.delays) <= made
           /\ \A n \in 1..Len(local.delays) :
                /\ ~local.outcomes[n].ok
                /\ n = 1 => local.delays[n] = 1200
                /\ n > 1 => local.delays[n] > local.delays[n - 1]
           /\ (local.pc = "done" /\ ~local.outcomes[made].ok)
                => /\ made = 3
                   /\ ret = Rejected(local.outcomes[3].error)
           /\ local.pc # "done" => ret = Null

\* C22: fetchPage makes at most 3 attempts; the first response is returned
\* with no further attempt; the delay after each failure is longer than the
\* one before, from 1.2 s; the third failure in a row rejects with its error;
\* and every call settles.
C22_AtMostThreeAttemptsThenSettles ==
  /\ []RetryDiscipline
  /\ InFetchPage ~> FetchPageSettled

\* two failures of different errors, two delays, and a response on the third
\* attempt
C22_Witness ==
  /\ FetchPageSettled
  /\ Len(local.outcomes) = 3
  /\ Len(local.delays) = 2
  /\ local.outcomes[1].error # local.outcomes[2].error
  /\ local.outcomes[3].ok

----------------------------------------------------------------------------
(* Calls of fToPValue on its own.  The F statistics are the quarters from
   -1/2 to MaxF, and the degrees of freedom the pairs up to MaxDegree for
   which the p-value is modelled: d2 even, or d2 odd and d1 even. *)

MaxF == 6
MaxDegree == 4

FValues == {Norm(k, 4) : k \in (-2)..(4 * MaxF)}
DegreePairs ==
  {d \in (1..MaxDegree) \X (1..MaxDegree) : d[2] % 2 = 0 \/ d[1] % 2 = 0}

InitPValue ==
  /\ series = << >>
  /\ call = [op |-> "none"]
  /\ ret = Null
  /\ metrics = [requests |-> 0, nulls |-> 0, models |-> 0, charts |-> 0]
  /\ local = Null
  /\ browser = FreshBrowser

\* fToPValue(f, d1, d2)
CallFToPValue ==
  /\ Idle
  /\ \E f \in FValues, d \in DegreePairs :
       /\ call' = [op |-> "fToPValue", f |-> f, d1 |-> d[1], d2 |-> d[2]]
       /\ ret' = fToPValue(f, d[1], d[2])
  /\ UNCHANGED <<browser, series, metrics, local>>

NextPValue == CallFToPValue \/ Return

SpecPValue == InitPValue /\ [][NextPValue]_vars

----------------------------------------------------------------------------
(* Properties of fToPValue *)

PValueDone == call.op = "fToPValue"

\* the order of the products of the rationals fs and gs: -1, 0 or 1
RadOrder(fs, gs) ==
  BigCmp(BigProd([i \in 1..Len(fs) |-> fs[i][1]] \o [i \in 1..Len(gs) |-> gs[i][2]]),
         BigProd([i \in 1..Len(fs) |-> fs[i][2]] \o [i \in 1..Len(gs) |-> gs[i][1]]))

\* p <= q for two p-values of the same form
PLe(p, q) ==
  IF p.form = "root" THEN RadOrder(p.fs, q.fs) <= 0 ELSE RadOrder(p.fs, q.fs) >= 0

\* C24: for fixed degrees of freedom d1, d2 >= 1 the p-value of fToPValue is
\* non-increasing in F: it is 1 for F <= 0, and for 0 < F1 < F2 the p-value of
\* F2 is at most the p-value of F1.
C24_PValueNonIncreasingInF ==
  PValueDone =>
    IF RLe(call.f, Zero) THEN ret = PConst(One)
    ELSE \A f2 \in FValues :
           RLt(call.f, f2) => PLe(fToPValue(f2, call.d1, call.d2), ret)

\* what the function does between two positive statistics: the larger F has
\* the strictly larger p-value
PValueIncreasingInF ==
  (PValueDone /\ RGt(call.f, Zero)) =>
    \A f2 \in FValues :
      RLt(call.f, f2) =>
        LET p2 == fToPValue(f2, call.d1, call.d2)
        IN  PLe(ret, p2) /\ ~PLe(p2, ret)

----------------------------------------------------------------------------
(* app.js: the click handler of 'run-recession-btn'.  app.js declares
   initRecession twice, and the later declaration is the one that runs: the
   button is bound to runRecessionPredictor.  local holds the page: the
   pipeline log, the button, the gauge and the dashboard. *)

LogEntry(level, msg) == [level |-> level, msg |-> msg]

\* !result || !result.currentProbability
NoProbability(result) ==
  \/ result = Null
  \/ "currentProbability" \notin DOMAIN result
  \/ result.currentProbability = 0

\* the try block of runRecessionPredictor after the await
AfterPrediction(page, result) ==
  IF NoProbability(result)
  THEN \* throw new Error(..), caught below the try block
       [page EXCEPT
          !.log = Append(@, LogEntry("error",
                    "Recession prediction failed: Insufficient data for recession prediction"))]
  ELSE [page EXCEPT
          !.gauge = result.currentProbability,
          !.dashboard = TRUE,
          !.log = Append(@, LogEntry("success", "Recession risk"))]

Countries == {"", "GB"}

\* what the six fetches of the call will settle with
HandlerOutcomes ==
  {<<gdp, unemployment, inflation, exports, fdi, debt>> :
     gdp \in FanOutcomes[1], unemployment \in FanOutcomes[2],
     inflation \in FanOutcomes[3], exports \in FanOutcomes[4],
     fdi \in FanOutcomes[5], debt \in FanOutcomes[6]} \cup Scenarios

InitHandler ==
  /\ series = << >>
  /\ call = [op |-> "none"]
  /\ ret = Null
  /\ metrics = [requests |-> 0, nulls |-> 0, models |-> 0, charts |-> 0]
  /\ local = Null
  /\ browser = FreshBrowser

\* the click: runRecessionPredictor up to its await
ClickRunRecession ==
  /\ Idle
  /\ \E country \in Countries, results \in HandlerOutcomes :
       /\ call' = [op |-> "runRecessionPredictor", country |-> country,
                   results |-> results]
       /\ local' =
            IF country = ""
            THEN [pc |-> "done", loading |-> FALSE, gauge |-> Null, dashboard |-> FALSE,
                  result |-> Null,
                  log |-> <<LogEntry("warn", "Please select a country first")>>]
            ELSE [pc |-> "awaiting", loading |-> TRUE, gauge |-> Null, dashboard |-> FALSE,
                  result |-> Null,
                  log |-> <<LogEntry("info", "Calculating recession risk")>>]
  /\ ret' = Null
  /\ UNCHANGED <<browser, series, metrics>>

\* predictRecession resolves: the rest of the try block, catch and finally
PredictionResolves ==
  /\ local # Null
  /\ call.op = "runRecessionPredictor"
  /\ local.pc = "awaiting"
  /\ local' = Const(predictRecession(call.country, call.results),
                    LAMBDA result :
                      [AfterPrediction(local, result) EXCEPT
                         !.pc = "done", !.loading = FALSE, !.result = result])
  /\ UNCHANGED <<browser, series, call, ret, metrics>>

NextHandler == ClickRunRecession \/ PredictionResolves \/ Return

SpecHandler == InitHandler /\ [][NextHandler]_vars

----------------------------------------------------------------------------
(* Properties of the recession handler *)

\* the handler has run to its end on a prediction that resolved
HandlerDone ==
  /\ call.op = "runRecessionPredictor"
  /\ local.pc = "done"
  /\ local.result # Null

\* the failure path: the error entry of the catch block
TookFailurePath ==
  \E i \in 1..Len(local.log) : local.log[i].level = "error"

\* a result without error: a numeric probability and a timeline
GoodResult(result) == "error" \notin DOMAIN result /\ Len(result.timeline) > 0

\* C27: when predictRecession resolves with a result that is no error, the
\* handler of 'run-recession-btn' displays it and does not take its failure
\* path; the failure path is taken only for the 'Insufficient data' result
\* (or a rejection).
C27_GoodResultIsDisplayed ==
  HandlerDone =>
    /\ GoodResult(local.result) => (local.dashboard /\ ~TookFailurePath)
    /\ TookFailurePath => ~GoodResult(local.result)

\* what the handler does: every prediction, good or not, ends in the failure
\* path with the button restored
EveryResultFails ==
  HandlerDone => (TookFailurePath /\ ~local.dashboard /\ ~local.loading)

----------------------------------------------------------------------------
(* app.js: the comparator.  local holds the page: compareState.countries, the
   'run-compare-btn' button, the runCompare calls awaiting fetchMultiCountry,
   and the chart and rank table drawn last.  A series is known by the code of
   the country it was fetched for. *)

MaxStarted == 2    \* runCompare calls started in one behaviour
MaxEdits == 2      \* countries added or removed in one behaviour
MaxCompared == 6   \* compareState.countries.length >= 6 refuses another one

CompareCodes == {"GBR", "USA", "DEU", "FRA"}
CountryName ==
  [c \in CompareCodes |->
     CASE c = "GBR" -> "United Kingdom" [] c = "USA" -> "United States"
       [] c = "DEU" -> "Germany" [] c = "FRA" -> "France"]
Country(code) == [code |-> code, name |-> CountryName[code]]

\* the label of the button in the page, and the one of a loading button
InitialLabel == "Compare"
LoadingLabel == "Loading"

\* setButtonLoading(btn, loading); origText "" is a dataset without origText
setButtonLoading(btn, loading) ==
  IF loading
  THEN [btn EXCEPT !.origText = btn.text, !.text = LoadingLabel, !.disabled = TRUE]
  ELSE [btn EXCEPT !.text = IF btn.origText = "" THEN "Run" ELSE btn.origText,
                   !.disabled = FALSE]

\* runCompare up to its await: the codes are read from compareState now
RunCompareBegin(page) ==
  IF Len(page.countries) < 2 THEN page
  ELSE [page EXCEPT
          !.button = setButtonLoading(@, TRUE),
          !.flights = Append(@, [i \in 1..Len(page.countries) |-> page.countries[i].code]),
          !.started = @ + 1]

\* what fetchMultiCountry resolves to for `codes`, the fetch of `failed` failing
MultiCountry(codes, failed) ==
  [i \in 1..Len(codes) |->
     [country |-> codes[i], holds |-> codes[i], empty |-> codes[i] = failed]]

\* results.map((r, i) => ({country: compareState.countries[i]?.name || r.country, ..}))
Datasets(results, countries) ==
  [i \in 1..Len(results) |->
     [country |-> IF i <= Len(countries) THEN countries[i].name ELSE results[i].country,
      holds |-> results[i].holds, empty |-> results[i].empty]]

\* the latest value of the series fetched for each country
LatestValue ==
  [c \in CompareCodes |->
     CASE c = "GBR" -> 3 [] c = "USA" -> 5 [] c = "DEU" -> 4 [] c = "FRA" -> 2]

RECURSIVE InsertByLatest(_, _)
InsertByLatest(d, s) ==
  IF s = << >> THEN <<d>>
  ELSE IF LatestValue[d.holds] > LatestValue[s[1].holds] THEN <<d>> \o s
  ELSE <<s[1]>> \o InsertByLatest(d, Tail(s))

RECURSIVE SortByLatest(_)
\* .sort((a, b) => b.latest.value - a.latest.value)
SortByLatest(s) ==
  IF s = << >> THEN << >>
  ELSE InsertByLatest(s[Len(s)], SortByLatest(SubSeq(s, 1, Len(s) - 1)))

\* the rows of the rank table: the datasets that have a latest value, the
\* largest first
Ranked(datasets) == SortByLatest(SelectSeq(datasets, LAMBDA d : ~d.empty))

\* runCompare after its await, with finally
RunCompareEnd(page, k, failed) ==
  LET datasets == Datasets(MultiCountry(page.flights[k], failed), page.countries)
  IN  [page EXCEPT
         !.chart = datasets,
         !.rank = Ranked(datasets),
         !.button = setButtonLoading(@, FALSE),
         !.flights = [i \in 1..(Len(@) - 1) |-> IF i < k THEN @[i] ELSE @[i + 1]]]

\* after initCompare: the three default countries
InitCompare ==
  /\ series = << >>
  /\ call = [op |-> "none"]
  /\ ret = Null
  /\ metrics = [requests |-> 0, nulls |-> 0, models |-> 0, charts |-> 0]
  /\ browser = FreshBrowser
  /\ local = [countries |-> <<Country("GBR"), Country("USA"), Country("DEU")>>,
              button |-> [text |-> InitialLabel, origText |-> "", disabled |-> FALSE],
              flights |-> << >>, chart |-> << >>, rank |-> << >>,
              started |-> 0, edits |-> 0]

Compared(code) == \E i \in 1..Len(local.countries) : local.countries[i].code = code

\* the change handler of 'add-compare-country'
AddCountry ==
  /\ local.edits < MaxEdits
  /\ \E code \in CompareCodes :
       /\ ~Compared(code)
       /\ Len(local.countries) < MaxCompared
       /\ local' = [local EXCEPT !.countries = Append(@, Country(code)), !.edits = @ + 1]
  /\ UNCHANGED <<browser, series, call, ret, metrics>>

\* PG.removeCompareCountry(code), from the tag of a compared country
RemoveCountry ==
  /\ local.edits < MaxEdits
  /\ \E code \in CompareCodes :
       /\ Compared(code)
       /\ local' = [local EXCEPT
                      !.countries = SelectSeq(@, LAMBDA c : c.code # code),
                      !.edits = @ + 1]
  /\ UNCHANGED <<browser, series, call, ret, metrics>>

\* a click on the button, which a disabled button does not deliver
ClickCompare ==
  /\ local.started < MaxStarted
  /\ ~local.button.disabled
  /\ Len(local.countries) >= 2
  /\ local' = RunCompareBegin(local)
  /\ UNCHANGED <<browser, series, call, ret, metrics>>

\* the change handler of the normalise toggle
ToggleNormalise ==
  /\ local.started < MaxStarted
  /\ Len(local.countries) >= 2
  /\ local' = RunCompareBegin(local)
  /\ UNCHANGED <<browser, series, call, ret, metrics>>

\* fetchMultiCountry resolves for one of the calls in flight
CompareResolves ==
  /\ \E k \in 1..Len(local.flights) :
       \E failed \in {"none"} \cup {local.flights[k][i] : i \in 1..Len(local.flights[k])} :
         local' = RunCompareEnd(local, k, failed)
  /\ UNCHANGED <<browser, series, call, ret, metrics>>

NextCompare ==
  AddCountry \/ RemoveCountry \/ ClickCompare \/ ToggleNormalise \/ CompareResolves

SpecCompare == InitCompare /\ [][NextCompare]_vars

----------------------------------------------------------------------------
(* Properties of the comparator *)

\* C28: in the chart and the rank table of runCompare every dataset carries
\* the name of the country whose data it holds, whatever countries are added
\* or removed while fetchMultiCountry is in flight.
C28_DatasetsNamedByTheirCountry ==
  /\ \A i \in 1..Len(local.chart) :
       local.chart[i].country = CountryName[local.chart[i].holds]
  /\ \A i \in 1..Len(local.rank) :
       local.rank[i].country = CountryName[local.rank[i].holds]

\* C29: the compare button is disabled whenever a runCompare is in flight,
\* and once every started runCompare has finished it is enabled and carries
\* the label it had before the first run.
C29_ButtonFollowsTheRuns ==
  /\ local.flights # << >> => local.button.disabled
  /\ (local.flights = << >> /\ local.started > 0) =>
       (~local.button.disabled /\ local.button.text = InitialLabel)

\* as long as no country has been added or removed the names are right
NamedWhenUntouched ==
  local.edits = 0 => C28_DatasetsNamedByTheirCountry

----------------------------------------------------------------------------
(* server/cache.js: the in-memory cache.  local holds the Map of the cache
   (store), the clock Date.now() (now) and, for each key, the last set made
   for it (sets).  The store starts with the keys 2..99 set at time 0, the
   even ones for 1 tick and the odd ones for 2, so that the two keys the calls
   use, 1 and 100, bring the size to the 100 at which set evicts. *)

EvictPeriod == 100
ServerKeys == 1..EvictPeriod
CalledKeys == {1, EvictPeriod}
CacheValues == {[v |-> "a"], [v |-> "b"]}
Ttls == {0, 1, 2}

Entry(value, expires) == [value |-> value, expires |-> expires]
Without(store, K) == [k \in DOMAIN store \ K |-> store[k]]
With(store, key, entry) ==
  [k \in DOMAIN store \cup {key} |-> IF k = key THEN entry ELSE store[k]]

\* Cache._evict at the time now
Evict_all(store, now) == Without(store, DOMAIN store \ CalledKeys)
Evict(store, now) == Without(store, {k \in DOMAIN store : now > store[k].expires})

\* Cache.set: the store it leaves
AfterSet(store, key, value, ttlMs, now) ==
  LET written == With(store, key, Entry(value, now + ttlMs))
  IN  IF Cardinality(DOMAIN written) % EvictPeriod = 0 THEN Evict(written, now)
      ELSE written

\* an entry of the key exists and Date.now() > entry.expires
Lapsed(store, key, now) == key \in DOMAIN store /\ now > store[key].expires

InitCache ==
  /\ series = << >>
  /\ call = [op |-> "none"]
  /\ ret = Null
  /\ metrics = [requests |-> 0, nulls |-> 0, models |-> 0, charts |-> 0]
  /\ browser = FreshBrowser
  /\ local = [store |-> [k \in ServerKeys \ CalledKeys |-> Entry([v |-> "a"], 1 + (k % 2))],
              now |-> 0,
              sets |-> [k \in CalledKeys |-> Null]]

\* cache.set(key, value, ttlMs)
CacheSet ==
  /\ \E key \in CalledKeys, value \in CacheValues, ttlMs \in Ttls :
       /\ call' = [op |-> "set", key |-> key, value |-> value, ttlMs |-> ttlMs]
       /\ local' = [local EXCEPT
                      !.store = AfterSet(@, key, value, ttlMs, local.now),
                      !.sets[key] = [value |-> value, at |-> local.now, ttlMs |-> ttlMs]]
  /\ ret' = Undefined
  /\ UNCHANGED <<browser, series, metrics>>

\* cache.get(key)
CacheGet ==
  /\ \E key \in CalledKeys :
       /\ call' = [op |-> "get", key |-> key]
       /\ ret' = IF key \notin DOMAIN local.store \/ Lapsed(local.store, key, local.now)
                 THEN Null
                 ELSE local.store[key].value
       /\ local' = IF Lapsed(local.store, key, local.now)
                   THEN [local EXCEPT !.store = Without(@, {key})]
                   ELSE local
  /\ UNCHANGED <<browser, series, metrics>>

\* cache.size()
CacheSize ==
  /\ call' = [op |-> "size"]
  /\ ret' = [size |-> Cardinality(DOMAIN local.store)]
  /\ UNCHANGED <<browser, series, metrics, local>>

\* the clock advances
CacheTick ==
  /\ local.now < MaxClock
  /\ call' = [op |-> "tick"]
  /\ ret' = Null
  /\ local' = [local EXCEPT !.now = @ + 1]
  /\ UNCHANGED <<browser, series, metrics>>

NextCache == CacheSet \/ CacheGet \/ CacheSize \/ CacheTick

SpecCache == InitCache /\ [][NextCache]_vars

----------------------------------------------------------------------------
(* Properties of the server cache *)

\* the last set of the key is still in its time to live
InTime(key) ==
  /\ local.sets[key] # Null
  /\ local.now <= local.sets[key].at + local.sets[key].ttlMs

\* get(key) has returned the value of the last set of the key when the time
\* is not later than that set's time + ttl, and null otherwise, leaving no
\* entry of the key
GetIsRight ==
  call.op = "get" =>
    IF InTime(call.key) THEN ret = local.sets[call.key].value
    ELSE ret = Null /\ call.key \notin DOMAIN local.store

\* a set removes no entry that has not expired, and writes its own
SetEvictsOnlyExpired ==
  call'.op = "set" =>
    /\ \A k \in DOMAIN local.store \ DOMAIN local'.store :
         local.now > (IF k = call'.key THEN local.now + call'.ttlMs
                      ELSE local.store[k].expires)
    /\ \A k \in DOMAIN local'.store :
         local'.store[k] = IF k = call'.key
                           THEN Entry(call'.value, local.now + call'.ttlMs)
                           ELSE local.store[k]

\* C30: get(key) returns the value of the most recent set(key, value, ttl)
\* exactly when the time is not later than that set's time + ttl, and null
\* otherwise, removing the expired entry; and the eviction a set triggers
\* removes only entries that have expired.
C30_CacheHonoursTtl ==
  /\ []GetIsRight
  /\ [][SetEvictsOnlyExpired]_vars

\* a set has brought the size to 100 and evicted expired entries while
\* keeping those still in time
C30_Witness ==
  /\ call.op = "set"
  /\ Cardinality(DOMAIN local.store) < EvictPeriod - 2
  /\ \E k \in DOMAIN local.store \ CalledKeys : local.now <= local.store[k].expires
  /\ CalledKeys \subseteq DOMAIN local.store

====
